---------------------------- MODULE Spec2Model ----------------------------
(***************************************************************************)
(* Model of the HPP-Calculator backend: the commodity price ingestion      *)
(* pipeline (backend/src/services/scraper.service.ts), the scheduler       *)
(* (cron.ts), the retry orchestrator and the tier gateway                  *)
(* (backend/src/middlewares/premium.middleware.ts, routes.ts,              *)
(* controllers/prices.controller.ts).                                      *)
(*                                                                         *)
(* Three specifications share the module:                                  *)
(*   Spec       ingestion runs (daily cron and POST /admin/scrape),        *)
(*              national averages, weekly cleanup, over the price store    *)
(*   SpecRetry  scrapeWithRetry over an operation with a scripted outcome  *)
(*   SpecTier   accounts, subscriptions, payment activation, the expiry    *)
(*              reconcilers and the gated price requests                   *)
(* Time is counted in days (the stores only compare dates).                *)
(***************************************************************************)
EXTENDS Integers, Sequences, FiniteSets, Bags, TLC

VARIABLES
  today,           \* the wall clock, in days (new Date())
  ticks,           \* number of clock advances so far (bounds the clock)
  commodityPrice,  \* table CommodityPrice: a set of rows
  priceHistory,    \* table PriceHistory: a bag of rows (append-only ledger)
  systemLog,       \* table SystemLog: a bag of rows
  job,             \* per ingestion caller: position and locals of its run
  faults,          \* number of store operations that have failed so far
  retry,           \* one call of scrapeWithRetry: its arguments, position and trace
  fetch,           \* one run of scrapeCommodityPrices taken call by call: the
                   \* position in its two retry sequences, the browser, the trace
  mapping,         \* one call of a label function: its arguments and its result
  client,          \* the API client of the frontend: its token, its refresh flag, its
                   \* subscribers and the requests it is carrying
  transaction,     \* table Transaction: the status of each order
  user,            \* table User: the status of each account
  userSubscription,\* table UserSubscription: a set of rows
  payment,         \* the handler of a payment notification: position and locals
  expiryJob,       \* the hourly expiry job: position and locals
  request          \* a request to a price route: position, locals and response

ingestVars == <<today, ticks, commodityPrice, priceHistory, systemLog, job, faults>>
tierVars == <<user, userSubscription, payment, expiryJob, request>>

-----------------------------------------------------------------------------
(* Bounds of the model *)

MaxRuns == 2      \* ingestion runs started in one behaviour
MaxTicks == 1     \* clock advances in one behaviour
MaxFaults == 1    \* failing store operations in one behaviour
MaxRetriesArg == 6  \* largest maxRetries handed to scrapeWithRetry
MaxSubscriptions == 2  \* successful payments in one behaviour
MaxAbsent == 1     \* commodities absent from, or alone in, the price data
MaxRequests == 3   \* calls of apiRequest in one behaviour
MaxNotifications == 3  \* payment notifications delivered in one behaviour

-----------------------------------------------------------------------------
(* Program constants *)

DefaultMaxRetries == 3
BackoffBaseMs == 1000
BackoffCapMs == 30000
PriceRetentionDays == 30
LogRetentionDays == 90
PlanDuration == 30

Null == "null"
NASIONAL == "NASIONAL"
BaseUrl == "https://panelharga.badanpangan.go.id"
Calculated == "calculated"

\* Object.values(CommodityType), in the order the map introduces the values
CommodityType ==
  << "BERAS", "CABAI_MERAH", "CABAI_RAWIT", "BAWANG_MERAH", "BAWANG_PUTIH",
     "DAGING_AYAM", "DAGING_SAPI", "TELUR_AYAM", "MINYAK_GORENG", "GULA_PASIR",
     "TEPUNG_TERIGU", "SUSU", "TOMAT", "KENTANG", "WORTEL" >>

\* The synonym tables, keys as written in the source (all lower case)
COMMODITY_MAP ==
  << <<<<"b","e","r","a","s">>, "BERAS">>
  ,  <<<<"b","e","r","a","s"," ","p","r","e","m","i","u","m">>, "BERAS">>
  ,  <<<<"b","e","r","a","s"," ","m","e","d","i","u","m">>, "BERAS">>
  ,  <<<<"c","a","b","a","i"," ","m","e","r","a","h">>, "CABAI_MERAH">>
  ,  <<<<"c","a","b","a","i"," ","m","e","r","a","h"," ","k","e","r","i","t","i","n","g">>, "CABAI_MERAH">>
  ,  <<<<"c","a","b","a","i"," ","r","a","w","i","t">>, "CABAI_RAWIT">>
  ,  <<<<"c","a","b","a","i"," ","r","a","w","i","t"," ","h","i","j","a","u">>, "CABAI_RAWIT">>
  ,  <<<<"b","a","w","a","n","g"," ","m","e","r","a","h">>, "BAWANG_MERAH">>
  ,  <<<<"b","a","w","a","n","g"," ","p","u","t","i","h">>, "BAWANG_PUTIH">>
  ,  <<<<"d","a","g","i","n","g"," ","a","y","a","m">>, "DAGING_AYAM">>
  ,  <<<<"d","a","g","i","n","g"," ","a","y","a","m"," ","r","a","s">>, "DAGING_AYAM">>
  ,  <<<<"d","a","g","i","n","g"," ","s","a","p","i">>, "DAGING_SAPI">>
  ,  <<<<"d","a","g","i","n","g"," ","s","a","p","i"," ","m","u","r","n","i">>, "DAGING_SAPI">>
  ,  <<<<"t","e","l","u","r"," ","a","y","a","m">>, "TELUR_AYAM">>
  ,  <<<<"t","e","l","u","r"," ","a","y","a","m"," ","r","a","s">>, "TELUR_AYAM">>
  ,  <<<<"m","i","n","y","a","k"," ","g","o","r","e","n","g">>, "MINYAK_GORENG">>
  ,  <<<<"m","i","n","y","a","k"," ","g","o","r","e","n","g"," ","c","u","r","a","h">>, "MINYAK_GORENG">>
  ,  <<<<"g","u","l","a"," ","p","a","s","i","r">>, "GULA_PASIR">>
  ,  <<<<"g","u","l","a"," ","p","a","s","i","r"," ","l","o","k","a","l">>, "GULA_PASIR">>
  ,  <<<<"t","e","p","u","n","g"," ","t","e","r","i","g","u">>, "TEPUNG_TERIGU">>
  ,  <<<<"s","u","s","u">>, "SUSU">>
  ,  <<<<"t","o","m","a","t">>, "TOMAT">>
  ,  <<<<"k","e","n","t","a","n","g">>, "KENTANG">>
  ,  <<<<"w","o","r","t","e","l">>, "WORTEL">>
  >>

PROVINCE_MAP ==
  << <<<<"a","c","e","h">>, "ACEH">>
  ,  <<<<"s","u","m","a","t","e","r","a"," ","u","t","a","r","a">>, "SUMATERA_UTARA">>
  ,  <<<<"s","u","m","u","t">>, "SUMATERA_UTARA">>
  ,  <<<<"s","u","m","a","t","e","r","a"," ","b","a","r","a","t">>, "SUMATERA_BARAT">>
  ,  <<<<"s","u","m","b","a","r">>, "SUMATERA_BARAT">>
  ,  <<<<"r","i","a","u">>, "RIAU">>
  ,  <<<<"j","a","m","b","i">>, "JAMBI">>
  ,  <<<<"s","u","m","a","t","e","r","a"," ","s","e","l","a","t","a","n">>, "SUMATERA_SELATAN">>
  ,  <<<<"s","u","m","s","e","l">>, "SUMATERA_SELATAN">>
  ,  <<<<"b","e","n","g","k","u","l","u">>, "BENGKULU">>
  ,  <<<<"l","a","m","p","u","n","g">>, "LAMPUNG">>
  ,  <<<<"b","a","n","g","k","a"," ","b","e","l","i","t","u","n","g">>, "KEPULAUAN_BANGKA_BELITUNG">>
  ,  <<<<"k","e","p","u","l","a","u","a","n"," ","b","a","n","g","k","a"," ","b","e","l","i","t","u","n","g">>, "KEPULAUAN_BANGKA_BELITUNG">>
  ,  <<<<"k","e","p","u","l","a","u","a","n"," ","r","i","a","u">>, "KEPULAUAN_RIAU">>
  ,  <<<<"k","e","p","r","i">>, "KEPULAUAN_RIAU">>
  ,  <<<<"d","k","i"," ","j","a","k","a","r","t","a">>, "DKI_JAKARTA">>
  ,  <<<<"j","a","k","a","r","t","a">>, "DKI_JAKARTA">>
  ,  <<<<"j","a","w","a"," ","b","a","r","a","t">>, "JAWA_BARAT">>
  ,  <<<<"j","a","b","a","r">>, "JAWA_BARAT">>
  ,  <<<<"j","a","w","a"," ","t","e","n","g","a","h">>, "JAWA_TENGAH">>
  ,  <<<<"j","a","t","e","n","g">>, "JAWA_TENGAH">>
  ,  <<<<"d","i"," ","y","o","g","y","a","k","a","r","t","a">>, "DI_YOGYAKARTA">>
  ,  <<<<"y","o","g","y","a","k","a","r","t","a">>, "DI_YOGYAKARTA">>
  ,  <<<<"j","a","w","a"," ","t","i","m","u","r">>, "JAWA_TIMUR">>
  ,  <<<<"j","a","t","i","m">>, "JAWA_TIMUR">>
  ,  <<<<"b","a","n","t","e","n">>, "BANTEN">>
  ,  <<<<"b","a","l","i">>, "BALI">>
  ,  <<<<"n","u","s","a"," ","t","e","n","g","g","a","r","a"," ","b","a","r","a","t">>, "NUSA_TENGGARA_BARAT">>
  ,  <<<<"n","t","b">>, "NUSA_TENGGARA_BARAT">>
  ,  <<<<"n","u","s","a"," ","t","e","n","g","g","a","r","a"," ","t","i","m","u","r">>, "NUSA_TENGGARA_TIMUR">>
  ,  <<<<"n","t","t">>, "NUSA_TENGGARA_TIMUR">>
  ,  <<<<"k","a","l","i","m","a","n","t","a","n"," ","b","a","r","a","t">>, "KALIMANTAN_BARAT">>
  ,  <<<<"k","a","l","b","a","r">>, "KALIMANTAN_BARAT">>
  ,  <<<<"k","a","l","i","m","a","n","t","a","n"," ","t","e","n","g","a","h">>, "KALIMANTAN_TENGAH">>
  ,  <<<<"k","a","l","t","e","n","g">>, "KALIMANTAN_TENGAH">>
  ,  <<<<"k","a","l","i","m","a","n","t","a","n"," ","s","e","l","a","t","a","n">>, "KALIMANTAN_SELATAN">>
  ,  <<<<"k","a","l","s","e","l">>, "KALIMANTAN_SELATAN">>
  ,  <<<<"k","a","l","i","m","a","n","t","a","n"," ","t","i","m","u","r">>, "KALIMANTAN_TIMUR">>
  ,  <<<<"k","a","l","t","i","m">>, "KALIMANTAN_TIMUR">>
  ,  <<<<"k","a","l","i","m","a","n","t","a","n"," ","u","t","a","r","a">>, "KALIMANTAN_UTARA">>
  ,  <<<<"k","a","l","t","a","r","a">>, "KALIMANTAN_UTARA">>
  ,  <<<<"s","u","l","a","w","e","s","i"," ","u","t","a","r","a">>, "SULAWESI_UTARA">>
  ,  <<<<"s","u","l","u","t">>, "SULAWESI_UTARA">>
  ,  <<<<"s","u","l","a","w","e","s","i"," ","t","e","n","g","a","h">>, "SULAWESI_TENGAH">>
  ,  <<<<"s","u","l","t","e","n","g">>, "SULAWESI_TENGAH">>
  ,  <<<<"s","u","l","a","w","e","s","i"," ","s","e","l","a","t","a","n">>, "SULAWESI_SELATAN">>
  ,  <<<<"s","u","l","s","e","l">>, "SULAWESI_SELATAN">>
  ,  <<<<"s","u","l","a","w","e","s","i"," ","t","e","n","g","g","a","r","a">>, "SULAWESI_TENGGARA">>
  ,  <<<<"s","u","l","t","r","a">>, "SULAWESI_TENGGARA">>
  ,  <<<<"g","o","r","o","n","t","a","l","o">>, "GORONTALO">>
  ,  <<<<"s","u","l","a","w","e","s","i"," ","b","a","r","a","t">>, "SULAWESI_BARAT">>
  ,  <<<<"s","u","l","b","a","r">>, "SULAWESI_BARAT">>
  ,  <<<<"m","a","l","u","k","u">>, "MALUKU">>
  ,  <<<<"m","a","l","u","k","u"," ","u","t","a","r","a">>, "MALUKU_UTARA">>
  ,  <<<<"m","a","l","u","t">>, "MALUKU_UTARA">>
  ,  <<<<"p","a","p","u","a"," ","b","a","r","a","t">>, "PAPUA_BARAT">>
  ,  <<<<"p","a","p","u","a">>, "PAPUA">>
  ,  <<<<"n","a","s","i","o","n","a","l">>, "NASIONAL">>
  ,  <<<<"r","a","t","a","-","r","a","t","a"," ","n","a","s","i","o","n","a","l">>, "NASIONAL">>
  >>

-----------------------------------------------------------------------------
(* Name normalisation.  A label is a sequence of one-character strings. *)

UpperCase == <<"A","B","C","D","E","F","G","H","I","J","K","L","M",
               "N","O","P","Q","R","S","T","U","V","W","X","Y","Z">>
LowerCase == <<"a","b","c","d","e","f","g","h","i","j","k","l","m",
               "n","o","p","q","r","s","t","u","v","w","x","y","z">>
WhiteSpace == {" ", "\t", "\n"}

toLowerCase(str) ==
  [i \in 1..Len(str) |->
     IF \E k \in 1..Len(UpperCase) : UpperCase[k] = str[i]
     THEN LowerCase[CHOOSE k \in 1..Len(UpperCase) : UpperCase[k] = str[i]]
     ELSE str[i]]

trim(str) ==
  LET keep == {i \in 1..Len(str) : str[i] \notin WhiteSpace}
  IN  IF keep = {} THEN <<>>
      ELSE LET lo == CHOOSE i \in keep : \A j \in keep : i <= j
               hi == CHOOSE i \in keep : \A j \in keep : j <= i
           IN  SubSeq(str, lo, hi)

\* '_' replaced by ' ' (the frontend's replace(/_/g, ' '))
replaceUnderscores(str) ==
  [i \in 1..Len(str) |-> IF str[i] = "_" THEN " " ELSE str[i]]

\* a mutant of normalizeString: separators are normalised too
normalizeStringSeparators(str) == replaceUnderscores(trim(toLowerCase(str)))

normalizeString(str) == trim(toLowerCase(str))

\* properties every object literal inherits from Object.prototype
ObjectPrototype ==
  << <<<<"c","o","n","s","t","r","u","c","t","o","r">>, "[Function: Object]">>
  ,  <<<<"_","_","p","r","o","t","o","_","_">>, "[Object: null prototype] {}">>
  ,  <<<<"t","o","S","t","r","i","n","g">>, "[Function: toString]">>
  ,  <<<<"v","a","l","u","e","O","f">>, "[Function: valueOf]">>
  ,  <<<<"h","a","s","O","w","n","P","r","o","p","e","r","t","y">>, "[Function: hasOwnProperty]">>
  >>

\* the own property `key` of an object literal given as a sequence of
\* <<key, value>>, or Null
OwnProperty(table, key) ==
  IF \E i \in 1..Len(table) : table[i][1] = key
  THEN table[CHOOSE i \in 1..Len(table) : table[i][1] = key][2]
  ELSE Null

\* table[key] || null: the property read finds an own property, else an
\* inherited one; every value here is truthy
Lookup(table, key) ==
  IF OwnProperty(table, key) # Null THEN OwnProperty(table, key)
  ELSE OwnProperty(ObjectPrototype, key)

mapCommodity(commodityName) == Lookup(COMMODITY_MAP, normalizeString(commodityName))

mapProvince(provinceName) == Lookup(PROVINCE_MAP, normalizeString(provinceName))

-----------------------------------------------------------------------------
(* What the external source can answer.  A raw row carries free-text        *)
(* labels, an integer price (parsePrice of a number is Math.round, which    *)
(* leaves an integer as it is), a unit and the age in days of its           *)
(* 'tanggal'.                                                               *)

Raw(c, p, price, lag) == [commodity |-> c, province |-> p, price |-> price, unit |-> "kg", lag |-> lag]

Label ==
    [ Beras        |-> <<"B","e","r","a","s">>,
      BerasPremium |-> <<"B","e","r","a","s"," ","P","r","e","m","i","u","m">>,
      BerasMedium  |-> <<" ","b","e","r","a","s"," ","m","e","d","i","u","m">>,
      Tomat        |-> <<"T","O","M","A","T">>,
      Jagung       |-> <<"J","a","g","u","n","g">>,
      Wortel       |-> <<"w","o","r","t","e","l">>,
      JawaBarat    |-> <<"J","a","w","a"," ","B","a","r","a","t">>,
      Jabar        |-> <<"j","a","b","a","r"," ">>,
      Jakarta      |-> <<"D","K","I"," ","J","a","k","a","r","t","a">>,
      Banten       |-> <<"B","a","n","t","e","n">>,
      Nasional     |-> <<"N","a","s","i","o","n","a","l">> ]

\* three provinces of one commodity
ThreeRegions ==
  << Raw(Label.Beras, Label.JawaBarat, 10000, 0), Raw(Label.Beras, Label.Jakarta, 12000, 0),
     Raw(Label.Beras, Label.Banten, 14000, 1) >>
\* two labels of one commodity in one province, a row of the national average,
\* a label no table knows and the last commodity of the enum
MixedRows ==
  << Raw(Label.BerasPremium, Label.JawaBarat, 15000, 0), Raw(Label.BerasMedium, Label.Jabar, 13002, 0),
     Raw(Label.Tomat, Label.Nasional, 12000, 0), Raw(Label.Jagung, Label.Jakarta, 9000, 0),
     Raw(Label.Wortel, Label.Banten, 8000, 0) >>

Payloads == {ThreeRegions, MixedRows}

\* the 2xx bodies: response.data.data is an array of rows, or it is not
ApiBodies == {[isArray |-> TRUE, data |-> rows] : rows \in Payloads}
               \cup {[isArray |-> FALSE, data |-> <<>>]}

-----------------------------------------------------------------------------
(* The adapters' row processing *)

\* mapCommodity and mapProvince on the labels the source sends, tabulated
CommodityLabels ==
  {Label.Beras, Label.BerasPremium, Label.BerasMedium, Label.Tomat, Label.Jagung, Label.Wortel}
ProvinceLabels == {Label.JawaBarat, Label.Jabar, Label.Jakarta, Label.Banten, Label.Nasional}
CommodityOf == [label \in CommodityLabels |-> mapCommodity(label)]
ProvinceOf == [label \in ProvinceLabels |-> mapProvince(label)]

\* a mutant of MappedRows: rows with a label that maps to nothing are kept
MappedRowsUnfiltered(rows, now, useRowDate) ==
  [i \in 1..Len(rows) |->
     [commodity |-> rows[i].commodity, province |-> rows[i].province,
      price |-> rows[i].price, unit |-> rows[i].unit,
      date |-> IF useRowDate THEN now - rows[i].lag ELSE now]]

\* the mapped rows of a payload, in order (lines 184-197 and 268-281)
RECURSIVE MappedRows(_, _, _)
MappedRows(rows, now, useRowDate) ==
  IF rows = <<>> THEN <<>>
  ELSE LET item == Head(rows)
           rest == MappedRows(Tail(rows), now, useRowDate)
       IN  IF CommodityOf[item.commodity] # Null /\ ProvinceOf[item.province] # Null
           THEN <<[commodity |-> item.commodity, province |-> item.province,
                   price |-> item.price, unit |-> item.unit,
                   date |-> IF useRowDate THEN now - item.lag ELSE now]>> \o rest
           ELSE rest

\* scrapeViaAPI on a 2xx response
scrapeViaAPI(body, now) ==
  IF body.isArray THEN MappedRows(body.data, now, TRUE) ELSE <<>>

\* scrapeViaPuppeteer on a page whose table rendered
scrapeViaPuppeteer(rows, now) == MappedRows(rows, now, FALSE)

-----------------------------------------------------------------------------
(* The canonical identifiers spelled out, and the keyword table of the      *)
(* frontend (COMMODITY_TO_INGREDIENT), in declaration order.                 *)

\* the values of CommodityType that the table uses, as written
CommodityIds ==
  << <<"BERAS", <<"B","E","R","A","S">> >>
  ,  <<"CABAI_MERAH", <<"C","A","B","A","I","_","M","E","R","A","H">> >>
  ,  <<"CABAI_RAWIT", <<"C","A","B","A","I","_","R","A","W","I","T">> >>
  ,  <<"BAWANG_MERAH", <<"B","A","W","A","N","G","_","M","E","R","A","H">> >>
  ,  <<"BAWANG_PUTIH", <<"B","A","W","A","N","G","_","P","U","T","I","H">> >>
  ,  <<"DAGING_AYAM", <<"D","A","G","I","N","G","_","A","Y","A","M">> >>
  ,  <<"DAGING_SAPI", <<"D","A","G","I","N","G","_","S","A","P","I">> >>
  ,  <<"TELUR_AYAM", <<"T","E","L","U","R","_","A","Y","A","M">> >>
  ,  <<"MINYAK_GORENG", <<"M","I","N","Y","A","K","_","G","O","R","E","N","G">> >>
  ,  <<"GULA_PASIR", <<"G","U","L","A","_","P","A","S","I","R">> >>
  ,  <<"TEPUNG_TERIGU", <<"T","E","P","U","N","G","_","T","E","R","I","G","U">> >>
  ,  <<"SUSU", <<"S","U","S","U">> >>
  ,  <<"TOMAT", <<"T","O","M","A","T">> >>
  ,  <<"KENTANG", <<"K","E","N","T","A","N","G">> >>
  ,  <<"WORTEL", <<"W","O","R","T","E","L">> >>
  >>

\* the values of Province that the table uses, as written
ProvinceIds ==
  << <<"ACEH", <<"A","C","E","H">> >>
  ,  <<"SUMATERA_UTARA", <<"S","U","M","A","T","E","R","A","_","U","T","A","R","A">> >>
  ,  <<"SUMATERA_BARAT", <<"S","U","M","A","T","E","R","A","_","B","A","R","A","T">> >>
  ,  <<"RIAU", <<"R","I","A","U">> >>
  ,  <<"JAMBI", <<"J","A","M","B","I">> >>
  ,  <<"SUMATERA_SELATAN", <<"S","U","M","A","T","E","R","A","_","S","E","L","A","T","A","N">> >>
  ,  <<"BENGKULU", <<"B","E","N","G","K","U","L","U">> >>
  ,  <<"LAMPUNG", <<"L","A","M","P","U","N","G">> >>
  ,  <<"KEPULAUAN_BANGKA_BELITUNG", <<"K","E","P","U","L","A","U","A","N","_","B","A","N","G","K","A","_","B","E","L","I","T","U","N","G">> >>
  ,  <<"KEPULAUAN_RIAU", <<"K","E","P","U","L","A","U","A","N","_","R","I","A","U">> >>
  ,  <<"DKI_JAKARTA", <<"D","K","I","_","J","A","K","A","R","T","A">> >>
  ,  <<"JAWA_BARAT", <<"J","A","W","A","_","B","A","R","A","T">> >>
  ,  <<"JAWA_TENGAH", <<"J","A","W","A","_","T","E","N","G","A","H">> >>
  ,  <<"DI_YOGYAKARTA", <<"D","I","_","Y","O","G","Y","A","K","A","R","T","A">> >>
  ,  <<"JAWA_TIMUR", <<"J","A","W","A","_","T","I","M","U","R">> >>
  ,  <<"BANTEN", <<"B","A","N","T","E","N">> >>
  ,  <<"BALI", <<"B","A","L","I">> >>
  ,  <<"NUSA_TENGGARA_BARAT", <<"N","U","S","A","_","T","E","N","G","G","A","R","A","_","B","A","R","A","T">> >>
  ,  <<"NUSA_TENGGARA_TIMUR", <<"N","U","S","A","_","T","E","N","G","G","A","R","A","_","T","I","M","U","R">> >>
  ,  <<"KALIMANTAN_BARAT", <<"K","A","L","I","M","A","N","T","A","N","_","B","A","R","A","T">> >>
  ,  <<"KALIMANTAN_TENGAH", <<"K","A","L","I","M","A","N","T","A","N","_","T","E","N","G","A","H">> >>
  ,  <<"KALIMANTAN_SELATAN", <<"K","A","L","I","M","A","N","T","A","N","_","S","E","L","A","T","A","N">> >>
  ,  <<"KALIMANTAN_TIMUR", <<"K","A","L","I","M","A","N","T","A","N","_","T","I","M","U","R">> >>
  ,  <<"KALIMANTAN_UTARA", <<"K","A","L","I","M","A","N","T","A","N","_","U","T","A","R","A">> >>
  ,  <<"SULAWESI_UTARA", <<"S","U","L","A","W","E","S","I","_","U","T","A","R","A">> >>
  ,  <<"SULAWESI_TENGAH", <<"S","U","L","A","W","E","S","I","_","T","E","N","G","A","H">> >>
  ,  <<"SULAWESI_SELATAN", <<"S","U","L","A","W","E","S","I","_","S","E","L","A","T","A","N">> >>
  ,  <<"SULAWESI_TENGGARA", <<"S","U","L","A","W","E","S","I","_","T","E","N","G","G","A","R","A">> >>
  ,  <<"GORONTALO", <<"G","O","R","O","N","T","A","L","O">> >>
  ,  <<"SULAWESI_BARAT", <<"S","U","L","A","W","E","S","I","_","B","A","R","A","T">> >>
  ,  <<"MALUKU", <<"M","A","L","U","K","U">> >>
  ,  <<"MALUKU_UTARA", <<"M","A","L","U","K","U","_","U","T","A","R","A">> >>
  ,  <<"PAPUA_BARAT", <<"P","A","P","U","A","_","B","A","R","A","T">> >>
  ,  <<"PAPUA", <<"P","A","P","U","A">> >>
  ,  <<"NASIONAL", <<"N","A","S","I","O","N","A","L">> >>
  >>

COMMODITY_TO_INGREDIENT ==
  << <<"BERAS", << <<"b","e","r","a","s">>, <<"r","i","c","e">> >> >>
  ,  <<"TEPUNG_TERIGU", << <<"t","e","p","u","n","g">>, <<"t","e","p","u","n","g"," ","t","e","r","i","g","u">>, <<"f","l","o","u","r">> >> >>
  ,  <<"GULA_PASIR", << <<"g","u","l","a">>, <<"g","u","l","a"," ","p","a","s","i","r">>, <<"s","u","g","a","r">> >> >>
  ,  <<"MINYAK_GORENG", << <<"m","i","n","y","a","k">>, <<"m","i","n","y","a","k"," ","g","o","r","e","n","g">>, <<"c","o","o","k","i","n","g"," ","o","i","l">> >> >>
  ,  <<"TELUR_AYAM", << <<"t","e","l","u","r">>, <<"t","e","l","u","r"," ","a","y","a","m">>, <<"e","g","g">> >> >>
  ,  <<"DAGING_AYAM", << <<"a","y","a","m">>, <<"d","a","g","i","n","g"," ","a","y","a","m">>, <<"c","h","i","c","k","e","n">> >> >>
  ,  <<"DAGING_SAPI", << <<"s","a","p","i">>, <<"d","a","g","i","n","g"," ","s","a","p","i">>, <<"b","e","e","f">> >> >>
  ,  <<"CABAI_MERAH", << <<"c","a","b","a","i">>, <<"c","a","b","e">>, <<"c","a","b","a","i"," ","m","e","r","a","h">>, <<"c","h","i","l","i">> >> >>
  ,  <<"CABAI_RAWIT", << <<"c","a","b","a","i"," ","r","a","w","i","t">>, <<"c","a","b","e"," ","r","a","w","i","t">> >> >>
  ,  <<"BAWANG_MERAH", << <<"b","a","w","a","n","g"," ","m","e","r","a","h">>, <<"s","h","a","l","l","o","t">> >> >>
  ,  <<"BAWANG_PUTIH", << <<"b","a","w","a","n","g"," ","p","u","t","i","h">>, <<"g","a","r","l","i","c">> >> >>
  ,  <<"TOMAT", << <<"t","o","m","a","t">>, <<"t","o","m","a","t","o">> >> >>
  ,  <<"SUSU", << <<"s","u","s","u">>, <<"m","i","l","k">> >> >>
  ,  <<"KENTANG", << <<"k","e","n","t","a","n","g">>, <<"p","o","t","a","t","o">> >> >>
  ,  <<"WORTEL", << <<"w","o","r","t","e","l">>, <<"c","a","r","r","o","t">> >> >>
  >>

\* the spelling of a canonical identifier
Chars(ids, id) == ids[CHOOSE i \in 1..Len(ids) : ids[i][1] = id][2]

-----------------------------------------------------------------------------
(* Calls of the label functions: mapCommodity and mapProvince of the        *)
(* ingestion path, findMatchingCommodity of the frontend.  The labels are    *)
(* built from the table keys, the canonical identifiers and the keywords by  *)
(* changing letter case, padding and separators; `owner` is the identifier   *)
(* the label was built from (Null for a label built from no entry) and       *)
(* `form` says how it was built.                                             *)

toUpperCase(str) ==
  [i \in 1..Len(str) |->
     IF \E k \in 1..Len(LowerCase) : LowerCase[k] = str[i]
     THEN UpperCase[CHOOSE k \in 1..Len(LowerCase) : LowerCase[k] = str[i]]
     ELSE str[i]]

\* every word starts with a capital: 'Cabai_Merah', 'Jawa Barat'
TitleCase(str) ==
  LET lower == toLowerCase(str)
      upper == toUpperCase(str)
  IN  [i \in 1..Len(str) |->
         IF i = 1 \/ str[i - 1] \in {"_", " ", "-"} THEN upper[i] ELSE lower[i]]

Padded(str) == <<" ", "\t">> \o str \o <<"\n", " ">>

\* a table key in other letter cases and with surrounding whitespace
KeyForms(key) == {key, toUpperCase(key), TitleCase(key), Padded(TitleCase(key))}

\* a canonical identifier in other letter cases, with underscores or spaces
IdForms(id) ==
  LET cases == {id, toLowerCase(id), TitleCase(id)}
  IN  cases \cup {replaceUnderscores(label) : label \in cases}

\* labels built from no entry of the tables
UnknownLabels ==
  { <<"j","a","g","u","n","g">>, <<>>, <<"c","o","n","s","t","r","u","c","t","o","r">>, <<" ","C","o","n","s","t","r","u","c","t","o","r"," ">>, <<"_","_","p","r","o","t","o","_","_">>, <<"t","o","s","t","r","i","n","g">>, <<"t","o","S","t","r","i","n","g">> }

\* null, where a price is expected (the prices of the data are positive)
NoPrice == 0

\* the price data the frontend gets from /prices/national: one item per
\* commodity present, each commodity with a price of its own
PriceOf(commodity) ==
  1000 * (CHOOSE i \in 1..Len(CommodityType) : CommodityType[i] = commodity)

CommodityData(present) ==
  {[commodity |-> c, price |-> PriceOf(c)] : c \in present}

\* the subsets of commodities tried: at most MaxAbsent are absent, or at
\* most MaxAbsent are present
DataSets ==
  LET all == {CommodityType[i] : i \in 1..Len(CommodityType)}
  IN  {present \in SUBSET all :
         \/ Cardinality(present) <= MaxAbsent
         \/ Cardinality(all \ present) <= MaxAbsent}

\* lowerIngredient.includes(keyword)
Includes(str, keyword) ==
  \E s \in 0..(Len(str) - Len(keyword)) : SubSeq(str, s + 1, s + Len(keyword)) = keyword

\* the keyword loop of findMatchingCommodity from entry i on
RECURSIVE KeywordMatch(_, _, _)
KeywordMatch(i, lowerIngredient, commodityData) ==
  IF i > Len(COMMODITY_TO_INGREDIENT) THEN NoPrice
  ELSE LET commodity == COMMODITY_TO_INGREDIENT[i][1]
           keywords == COMMODITY_TO_INGREDIENT[i][2]
           match == {item \in commodityData : item.commodity = commodity}
       IN  IF /\ match # {}
              /\ \E k \in 1..Len(keywords) : Includes(lowerIngredient, keywords[k])
           THEN (CHOOSE item \in match : TRUE).price
           ELSE KeywordMatch(i + 1, lowerIngredient, commodityData)

findMatchingCommodity(ingredientName, commodityData) ==
  LET lowerIngredient == toLowerCase(ingredientName)
      directMatch ==
        {item \in commodityData :
           replaceUnderscores(toLowerCase(Chars(CommodityIds, item.commodity)))
             = lowerIngredient}
  IN  IF directMatch # {} THEN (CHOOSE item \in directMatch : TRUE).price
      ELSE KeywordMatch(1, lowerIngredient, commodityData)

MappingIdle ==
  [pc |-> "idle", fn |-> "none", label |-> <<>>, owner |-> Null, form |-> "unknown",
   data |-> {}, result |-> Null, price |-> NoPrice]

MappingCall(fn, label, owner, form, data) ==
  [MappingIdle EXCEPT !.pc = "call", !.fn = fn, !.label = label, !.owner = owner,
                      !.form = form, !.data = data]

\* the calls of mapCommodity / mapProvince tried on a table
TableCalls(fn, table, ids) ==
  UNION {{MappingCall(fn, label, table[i][2], "key", {}) : label \in KeyForms(table[i][1])} :
           i \in 1..Len(table)}
  \cup UNION {{MappingCall(fn, label, ids[i][1], "id", {}) : label \in IdForms(ids[i][2])} :
               i \in 1..Len(ids)}
  \cup {MappingCall(fn, label, Null, "unknown", {}) : label \in UnknownLabels}

\* the calls of findMatchingCommodity tried: every keyword, in lower and in
\* upper case, over every data set
KeywordCalls ==
  UNION {UNION {{MappingCall("findMatchingCommodity", label, COMMODITY_TO_INGREDIENT[i][1],
                             "keyword", CommodityData(present)) :
                   label \in {COMMODITY_TO_INGREDIENT[i][2][k],
                              toUpperCase(COMMODITY_TO_INGREDIENT[i][2][k])},
                   present \in DataSets} :
                k \in 1..Len(COMMODITY_TO_INGREDIENT[i][2])} :
         i \in 1..Len(COMMODITY_TO_INGREDIENT)}

MappingCalls ==
  TableCalls("mapCommodity", COMMODITY_MAP, CommodityIds)
    \cup TableCalls("mapProvince", PROVINCE_MAP, ProvinceIds)
    \cup KeywordCalls

MapCommodity ==
  /\ mapping.pc = "call"
  /\ mapping.fn = "mapCommodity"
  /\ mapping' = [mapping EXCEPT !.pc = "returned", !.result = mapCommodity(mapping.label)]
  /\ UNCHANGED <<ingestVars, retry, fetch, client, transaction, tierVars>>

MapProvince ==
  /\ mapping.pc = "call"
  /\ mapping.fn = "mapProvince"
  /\ mapping' = [mapping EXCEPT !.pc = "returned", !.result = mapProvince(mapping.label)]
  /\ UNCHANGED <<ingestVars, retry, fetch, client, transaction, tierVars>>

FindMatchingCommodity ==
  /\ mapping.pc = "call"
  /\ mapping.fn = "findMatchingCommodity"
  /\ mapping' = [mapping EXCEPT !.pc = "returned",
                   !.price = findMatchingCommodity(mapping.label, mapping.data)]
  /\ UNCHANGED <<ingestVars, retry, fetch, client, transaction, tierVars>>

-----------------------------------------------------------------------------
(* The retry orchestrator.  The operation handed to scrapeWithRetry is      *)
(* scripted: its calls throw until call number firstOk, which returns        *)
(* `value`; firstOk > maxRetries is an operation that fails every time.      *)

RECURSIVE Pow2(_)
Pow2(n) == IF n = 0 THEN 1 ELSE 2 * Pow2(n - 1)

Min(a, b) == IF a < b THEN a ELSE b

\* a mutant of BackoffDelay: the cap is left out
BackoffDelayUncapped(attempt) == BackoffBaseMs * Pow2(attempt)

\* Math.min(1000 * Math.pow(2, attempt), 30000)
BackoffDelay(attempt) == Min(BackoffBaseMs * Pow2(attempt), BackoffCapMs)

\* a mutant of LastAttempt: gives up one attempt early
LastAttemptEarly(attempt, maxRetries) == attempt >= maxRetries - 1

\* if (attempt === maxRetries) throw error
LastAttempt(attempt, maxRetries) == attempt = maxRetries

\* what the operation can return
RetryValues == {<<>>} \cup {MappedRows(rows, 0, FALSE) : rows \in Payloads}

\* what a failing call of the operation throws: the adapters rethrow the
\* error of the HTTP client or of the browser
MethodErrors ==
  {[name |-> "AxiosError", message |-> "timeout of 30000ms exceeded"],
   [name |-> "Error", message |-> "connect ECONNREFUSED"]}

NoError == [name |-> "none", message |-> ""]

\* a mutant of ThrowError: the error is wrapped with the attempt count
ThrowErrorWrapped(error, attempt) ==
  [name |-> "ExhaustedRetries", attempts |-> attempt, lastCause |-> error]

\* `throw error`: the error caught in this pass of the loop, as it is
ThrowError(error, attempt) == error

RetryIdle ==
  [pc |-> "idle", maxRetries |-> DefaultMaxRetries, firstOk |-> 1, value |-> <<>>,
   attempt |-> 1, calls |-> 0, delays |-> <<>>, result |-> <<>>,
   caught |-> <<>>, error |-> NoError]

\* scrapeWithRetry(method, maxRetries) is called: the loop starts at attempt 1
RetryCalls ==
  {[RetryIdle EXCEPT !.pc = IF 1 <= m THEN "call" ELSE "empty",
                     !.maxRetries = m, !.firstOk = f, !.value = v] :
     m \in 1..MaxRetriesArg, f \in 1..(MaxRetriesArg + 1), v \in RetryValues}

\* one pass of the loop body: `await method()` and, if it throws, the catch
RetryAttempt ==
  /\ retry.pc = "call"
  /\ IF retry.attempt = retry.firstOk
     THEN retry' = [retry EXCEPT !.calls = @ + 1, !.pc = "returned",
                                 !.result = retry.value]
     ELSE \E error \in MethodErrors :
            retry' =
              IF LastAttempt(retry.attempt, retry.maxRetries)
              THEN [retry EXCEPT !.calls = @ + 1, !.pc = "threw",
                                 !.caught = Append(@, error),
                                 !.error = ThrowError(error, retry.attempt)]
              ELSE [retry EXCEPT !.calls = @ + 1, !.pc = "wait",
                                 !.caught = Append(@, error),
                                 !.delays = Append(@, BackoffDelay(retry.attempt))]
  /\ UNCHANGED <<ingestVars, fetch, mapping, client, transaction, tierVars>>

\* the timer fires: attempt++ and the loop test; past the loop, `return []`
RetryWake ==
  /\ retry.pc = "wait"
  /\ retry' = [retry EXCEPT !.attempt = @ + 1,
                            !.pc = IF retry.attempt + 1 <= retry.maxRetries
                                   THEN "call" ELSE "empty"]
  /\ UNCHANGED <<ingestVars, fetch, mapping, client, transaction, tierVars>>

\* scrapeWithRetry from attempt `attempt` on, taken as a whole: what the loop
\* ends with for an operation whose calls throw until call number firstOk
RECURSIVE scrapeWithRetry(_, _, _)
scrapeWithRetry(firstOk, attempt, maxRetries) ==
  IF attempt > maxRetries THEN "empty"
  ELSE IF attempt = firstOk THEN "returns"
  ELSE IF LastAttempt(attempt, maxRetries) THEN "throws"
  ELSE scrapeWithRetry(firstOk, attempt + 1, maxRetries)

-----------------------------------------------------------------------------
(* The store *)

SameKey(r, commodity, province, priceDate) ==
  r.commodity = commodity /\ r.province = province /\ r.priceDate = priceDate

\* a mutant of CommodityPriceUpsert: always inserts
CommodityPriceInsert(table, create, update) == table \cup {create}

\* prisma.commodityPrice.upsert on the unique key (commodity, province, priceDate):
\* `update` overwrites the fields it names, `create` is the row to insert
CommodityPriceUpsert(table, create, update) ==
  IF \E r \in table : SameKey(r, create.commodity, create.province, create.priceDate)
  THEN { IF SameKey(r, create.commodity, create.province, create.priceDate)
         THEN [f \in DOMAIN r |-> IF f \in DOMAIN update THEN update[f] ELSE r[f]]
         ELSE r : r \in table }
  ELSE table \cup {create}

\* a mutant of PriceHistoryCreate: an entry already present is not repeated
PriceHistoryCreateOnce(history, entry) ==
  IF BagIn(entry, history) THEN history ELSE history (+) SetToBag({entry})

\* prisma.priceHistory.create: the ledger gets one more row
PriceHistoryCreate(history, entry) == history (+) SetToBag({entry})

Ok == "ok"
UpsertFails == "upsert-fails"
HistoryFails == "history-fails"

NumFaults(pattern) == Cardinality({i \in DOMAIN pattern : pattern[i] # Ok})

\* the ways the store can fail during a batch of n rows, within the fault budget
FaultPatterns(n, budget) ==
  {f \in [1..n -> {Ok, UpsertFails, HistoryFails}] : NumFaults(f) <= budget}

\* a mutant of upsertPricesToDatabase: the first failure ends the loop
RECURSIVE upsertPricesToDatabaseAborts(_, _, _, _, _)
upsertPricesToDatabaseAborts(prices, i, pattern, now, acc) ==
  IF i > Len(prices) THEN acc
  ELSE
    LET item == prices[i]
        commodity == CommodityOf[item.commodity]
        province == ProvinceOf[item.province]
        create == [commodity |-> commodity, province |-> province, price |-> item.price,
                   unit |-> item.unit, priceDate |-> now, sourceUrl |-> BaseUrl,
                   scrapedAt |-> now, isActive |-> TRUE]
        update == [price |-> item.price, unit |-> item.unit, scrapedAt |-> now,
                   isActive |-> TRUE]
        entry == [commodity |-> commodity, province |-> province, price |-> item.price,
                  priceDate |-> now]
    IN  IF commodity = Null \/ province = Null \/ pattern[i] # Ok
        THEN [acc EXCEPT !.errorCount = @ + 1]
        ELSE upsertPricesToDatabaseAborts(prices, i + 1, pattern, now,
               [acc EXCEPT !.prices = CommodityPriceUpsert(@, create, update),
                           !.history = PriceHistoryCreate(@, entry),
                           !.successCount = @ + 1])

\* upsertPricesToDatabase: the loop over the batch from row i on; `acc` holds
\* the two tables and the counters
RECURSIVE upsertPricesToDatabase(_, _, _, _, _)
upsertPricesToDatabase(prices, i, pattern, now, acc) ==
  IF i > Len(prices) THEN acc
  ELSE
    LET item == prices[i]
        commodity == CommodityOf[item.commodity]
        province == ProvinceOf[item.province]
        create == [commodity |-> commodity, province |-> province, price |-> item.price,
                   unit |-> item.unit, priceDate |-> now, sourceUrl |-> BaseUrl,
                   scrapedAt |-> now, isActive |-> TRUE]
        update == [price |-> item.price, unit |-> item.unit, scrapedAt |-> now,
                   isActive |-> TRUE]
        entry == [commodity |-> commodity, province |-> province, price |-> item.price,
                  priceDate |-> now]
        failed == [acc EXCEPT !.errorCount = @ + 1]
        next ==
          IF commodity = Null \/ province = Null THEN failed
          ELSE IF pattern[i] = UpsertFails THEN failed
          ELSE IF pattern[i] = HistoryFails
               THEN [failed EXCEPT !.prices = CommodityPriceUpsert(@, create, update)]
          ELSE [acc EXCEPT !.prices = CommodityPriceUpsert(@, create, update),
                           !.history = PriceHistoryCreate(@, entry),
                           !.successCount = @ + 1]
    IN  upsertPricesToDatabase(prices, i + 1, pattern, now, next)


-----------------------------------------------------------------------------
(* The aggregator *)

\* a mutant of RegionalPrices: the commodity is left out of the filter
RegionalPricesAnyCommodity(table, commodity, now) ==
  {r \in table : r.priceDate = now /\ r.isActive /\ r.province # NASIONAL}

\* findMany of calculateNationalAverages: the active rows of one commodity and
\* date, every province but NASIONAL
RegionalPrices(table, commodity, now) ==
  {r \in table : /\ r.commodity = commodity
                 /\ r.priceDate = now
                 /\ r.isActive
                 /\ r.province # NASIONAL}

RECURSIVE SumPrices(_)
SumPrices(rows) ==
  IF rows = {} THEN 0
  ELSE LET r == CHOOSE x \in rows : TRUE IN r.price + SumPrices(rows \ {r})

\* a mutant of AveragePrice: the quotient is truncated
AveragePriceFloor(prices) == SumPrices(prices) \div Cardinality(prices)

\* Math.round(totalPrice / prices.length) on a non-negative total
AveragePrice(prices) ==
  (2 * SumPrices(prices) + Cardinality(prices)) \div (2 * Cardinality(prices))

\* findMany has no orderBy: prices[0] is any of the rows.  A choice of first
\* rows is a function from the commodities that have rows to one unit each.
WithPrices(table, now) ==
  {CommodityType[i] : i \in {j \in 1..Len(CommodityType) :
                               RegionalPrices(table, CommodityType[j], now) # {}}}

UnitChoices(table, now) ==
  {u \in [WithPrices(table, now) -> {r.unit : r \in table}] :
     \A c \in WithPrices(table, now) :
        u[c] \in {r.unit : r \in RegionalPrices(table, c, now)}}

\* a mutant of calculateNationalAverages: `return` instead of `continue` at a
\* commodity without rows
RECURSIVE calculateNationalAveragesReturn(_, _, _, _, _)
calculateNationalAveragesReturn(table, i, now, failAt, units) ==
  IF i > Len(CommodityType) \/ i = failAt THEN table
  ELSE
    LET commodity == CommodityType[i]
        prices == RegionalPrices(table, commodity, now)
    IN  IF prices = {} THEN table
        ELSE
          LET avgPrice == AveragePrice(prices)
              create == [commodity |-> commodity, province |-> NASIONAL, price |-> avgPrice,
                         unit |-> units[commodity], priceDate |-> now,
                         sourceUrl |-> Calculated, scrapedAt |-> now, isActive |-> TRUE]
              update == [price |-> avgPrice, scrapedAt |-> now, isActive |-> TRUE]
          IN  calculateNationalAveragesReturn(CommodityPriceUpsert(table, create, update),
                                              i + 1, now, failAt, units)

\* calculateNationalAverages: the loop over the commodities from index i on.
\* failAt is the index of the commodity at which a store call throws (0: none);
\* the catch around the loop ends the function there.
RECURSIVE calculateNationalAverages(_, _, _, _, _)
calculateNationalAverages(table, i, now, failAt, units) ==
  IF i > Len(CommodityType) \/ i = failAt THEN table
  ELSE
    LET commodity == CommodityType[i]
        prices == RegionalPrices(table, commodity, now)
    IN  IF prices = {} THEN calculateNationalAverages(table, i + 1, now, failAt, units)
        ELSE
          LET avgPrice == AveragePrice(prices)
              create == [commodity |-> commodity, province |-> NASIONAL, price |-> avgPrice,
                         unit |-> units[commodity], priceDate |-> now,
                         sourceUrl |-> Calculated, scrapedAt |-> now, isActive |-> TRUE]
              update == [price |-> avgPrice, scrapedAt |-> now, isActive |-> TRUE]
          IN  calculateNationalAverages(CommodityPriceUpsert(table, create, update),
                                        i + 1, now, failAt, units)

-----------------------------------------------------------------------------
(* Ingestion.  Two callers run scrapeCommodityPrices and then                *)
(* calculateNationalAverages: the daily cron job and the handler of          *)
(* POST /admin/scrape.  The callers interleave between the two calls.        *)

Cron == "cron"
Admin == "admin"
Procs == {Cron, Admin}

\* what the last call of scrapeCommodityPrices gave its caller: a
\* ScraperResult ("returned"), or an exception ("threw"); `errors` is the
\* local array of that call as it ended, `raw` the rows of the response its
\* data came from
NoResult == [settled |-> "none", success |-> FALSE, errors |-> <<>>, raw |-> <<>>]

NewJob ==
  [pc |-> "idle", runs |-> 0, data |-> <<>>, errors |-> <<>>,
   method |-> "api", successCount |-> 0, errorCount |-> 0, priceDate |-> 0,
   success |-> FALSE, raw |-> <<>>, result |-> NoResult]

TotalRuns == job[Cron].runs + job[Admin].runs

LogEntry(type, method, itemCount, errors, now) ==
  [type |-> type, method |-> method, itemCount |-> itemCount, errors |-> errors,
   createdAt |-> now]

\* a mutant of RunsAverages: no caller tests result.success
RunsAveragesAlways(p, success) == TRUE

\* whether the caller goes on to calculateNationalAverages: the cron job tests
\* result.success, the admin route does not
RunsAverages(p, success) == IF p = Cron THEN success ELSE TRUE

\* the caller's locals once scrapeCommodityPrices has settled: "returned" with
\* result.success, or "threw"
AfterScrape(p, j, settled, success) ==
  LET result == [settled |-> settled, success |-> success, errors |-> j.errors,
                 raw |-> j.raw]
  IN  IF settled = "returned" /\ RunsAverages(p, success)
      THEN [j EXCEPT !.pc = "averages", !.success = success, !.result = result]
      ELSE [NewJob EXCEPT !.runs = j.runs, !.result = result]

\* the catch of scrapeCommodityPrices: systemLog.create SCRAPER_ERROR and
\* return success: false; if that create throws too, the promise rejects.
\* `used` counts the store failures of this call so far.
CatchBlock(p, j, errors, used) ==
  \/ /\ systemLog' = systemLog (+) SetToBag({LogEntry("SCRAPER_ERROR", "-", 0, errors, today)})
     /\ job' = [job EXCEPT ![p] = AfterScrape(p, [j EXCEPT !.errors = errors], "returned", FALSE)]
     /\ faults' = faults + used
  \/ /\ faults + used < MaxFaults
     /\ systemLog' = systemLog
     /\ job' = [job EXCEPT ![p] = AfterScrape(p, [j EXCEPT !.errors = errors], "threw", FALSE)]
     /\ faults' = faults + used + 1

\* scrapeCommodityPrices after a fetch that returned `data`
Settle(p, j, method, data, errors) ==
  IF Len(data) = 0
  THEN \* nothing is written, nothing is logged, success: true
       /\ job' = [job EXCEPT ![p] =
            AfterScrape(p, [j EXCEPT !.method = method, !.errors = errors], "returned", TRUE)]
       /\ UNCHANGED <<commodityPrice, priceHistory, systemLog, faults>>
  ELSE \E pattern \in FaultPatterns(Len(data), MaxFaults - faults) :
         LET acc == upsertPricesToDatabase(data, 1, pattern, today,
                      [prices |-> commodityPrice, history |-> priceHistory,
                       successCount |-> 0, errorCount |-> 0])
             jj == [j EXCEPT !.method = method, !.data = data, !.errors = errors,
                             !.successCount = acc.successCount,
                             !.errorCount = acc.errorCount, !.priceDate = today]
         IN  /\ commodityPrice' = acc.prices
             /\ priceHistory' = acc.history
             /\ \/ \* systemLog.create SCRAPER_SUCCESS, return success: true
                   /\ systemLog' = systemLog (+)
                        SetToBag({LogEntry("SCRAPER_SUCCESS", method, Len(data), <<>>, today)})
                   /\ job' = [job EXCEPT ![p] = AfterScrape(p, jj, "returned", TRUE)]
                   /\ faults' = faults + NumFaults(pattern)
                \/ \* that create throws: the outer catch takes over
                   /\ faults + NumFaults(pattern) < MaxFaults
                   /\ CatchBlock(p, jj, Append(errors, "store error"), NumFaults(pattern) + 1)

\* the trigger fires: scrapeCommodityPrices().  scrapeWithRetry(scrapeViaAPI),
\* on exhaustion scrapeWithRetry(scrapeViaPuppeteer), on exhaustion the catch.
Scrape(p) ==
  /\ job[p].pc = "idle"
  /\ TotalRuns < MaxRuns
  /\ LET j == [NewJob EXCEPT !.runs = job[p].runs + 1]
     IN  \E apiOk \in 1..(DefaultMaxRetries + 1) :
           IF scrapeWithRetry(apiOk, 1, DefaultMaxRetries) = "returns"
           THEN \E body \in ApiBodies :
                  Settle(p, [j EXCEPT !.raw = body.data], "api",
                         scrapeViaAPI(body, today), <<>>)
           ELSE \E pupOk \in 1..(DefaultMaxRetries + 1) :
                  IF scrapeWithRetry(pupOk, 1, DefaultMaxRetries) = "returns"
                  THEN \E rows \in Payloads :
                         Settle(p, [j EXCEPT !.raw = rows], "puppeteer",
                                scrapeViaPuppeteer(rows, today), <<"API error">>)
                  ELSE /\ CatchBlock(p, j, <<"API error", "Puppeteer error",
                                              "All scraping methods failed">>, 0)
                       /\ UNCHANGED <<commodityPrice, priceHistory>>
  /\ UNCHANGED <<today, ticks, retry, fetch, mapping, client, transaction, tierVars>>

\* the indices at which a store call of calculateNationalAverages can throw,
\* up to the effect on the store: at a commodity that has rows, or at the
\* end (a throw at a commodity without rows acts like one at the next with rows)
FailPoints(table, now) ==
  {i \in 1..Len(CommodityType) : RegionalPrices(table, CommodityType[i], now) # {}}
    \cup {Len(CommodityType)}

\* calculateNationalAverages()
Averages(p) ==
  /\ job[p].pc = "averages"
  /\ \E failAt \in {0} \cup FailPoints(commodityPrice, today),
        units \in UnitChoices(commodityPrice, today) :
       /\ failAt > 0 => faults < MaxFaults
       /\ faults' = IF failAt > 0 THEN faults + 1 ELSE faults
       /\ commodityPrice' = calculateNationalAverages(commodityPrice, 1, today, failAt, units)
  /\ job' = [job EXCEPT ![p] = [NewJob EXCEPT !.runs = job[p].runs]]
  /\ UNCHANGED <<today, ticks, priceHistory, systemLog, retry, fetch, mapping, client, transaction, tierVars>>

\* a mutant of WeeklyCleanup: the old prices are deleted like the old logs
WeeklyCleanupDeletes ==
  /\ systemLog' = [e \in {x \in BagToSet(systemLog) : ~(x.createdAt + LogRetentionDays < today)}
                     |-> systemLog[e]]
  /\ commodityPrice' = {r \in commodityPrice : ~(r.priceDate + PriceRetentionDays <= today)}
  /\ UNCHANGED <<today, ticks, priceHistory, job, faults, retry, fetch, mapping, client, transaction, tierVars>>

\* the weekly cleanup job: logs older than 90 days are deleted, prices older
\* than 30 days are deactivated (the job runs at 02:00, price dates are midnights)
WeeklyCleanup ==
  /\ systemLog' = [e \in {x \in BagToSet(systemLog) : ~(x.createdAt + LogRetentionDays < today)}
                     |-> systemLog[e]]
  /\ commodityPrice' = { IF r.priceDate + PriceRetentionDays <= today /\ r.isActive
                         THEN [r EXCEPT !.isActive = FALSE] ELSE r : r \in commodityPrice }
  /\ UNCHANGED <<today, ticks, priceHistory, job, faults, retry, fetch, mapping, client, transaction, tierVars>>

\* time passes: to the next day, or by the retention window of the prices
DaySteps == {1, PriceRetentionDays}

Advance(steps) ==
  /\ ticks < MaxTicks
  /\ ticks' = ticks + 1
  /\ \E d \in steps : today' = today + d
  /\ UNCHANGED <<commodityPrice, priceHistory, systemLog, job, faults, retry, fetch, mapping, client, transaction, tierVars>>

Tick == Advance(DaySteps)

-----------------------------------------------------------------------------
(* One run of scrapeCommodityPrices by the daily job, taken call by call:    *)
(* scrapeWithRetry(scrapeViaAPI), on exhaustion                              *)
(* scrapeWithRetry(scrapeViaPuppeteer), then the store phase (Settle or      *)
(* CatchBlock).  Every awaited call of an adapter is a step of its own, so   *)
(* that what is in flight, and which browser is open, can be observed.       *)

Adapters == {"api", "puppeteer"}

FetchIdle ==
  [pc |-> "idle", adapter |-> "api", attempt |-> 1, inFlight |-> {},
   calls |-> [a \in Adapters |-> 0], failed |-> [a \in Adapters |-> 0],
   sequences |-> [a \in Adapters |-> 0],
   browser |-> "undefined", open |-> 0, launched |-> 0, exit |-> "none",
   isArray |-> TRUE, raw |-> <<>>, results |-> <<>>, data |-> <<>>, method |-> "api",
   errors |-> <<>>]

\* scrapeCommodityPrices is called: scrapeWithRetry(scrapeViaAPI), attempt 1
FetchStart ==
  /\ fetch.pc = "idle"
  /\ job[Cron].pc = "idle"
  /\ TotalRuns < MaxRuns
  /\ fetch' = [FetchIdle EXCEPT !.pc = "call", !.sequences["api"] = 1]
  /\ job' = [job EXCEPT ![Cron].pc = "scraping"]
  /\ UNCHANGED <<today, ticks, commodityPrice, priceHistory, systemLog, faults,
                 retry, mapping, client, transaction, tierVars>>

\* `await method()`: the adapter of the current sequence is invoked
FetchCall ==
  /\ fetch.pc = "call"
  /\ fetch' = [fetch EXCEPT !.calls[fetch.adapter] = @ + 1,
                            !.inFlight = @ \cup {fetch.adapter},
                            !.browser = "undefined", !.exit = "none",
                            !.pc = IF fetch.adapter = "api" THEN "get" ELSE "launch"]
  /\ UNCHANGED <<ingestVars, retry, mapping, client, transaction, tierVars>>

\* the catch of scrapeCommodityPrices around scrapeWithRetry(scrapeViaAPI):
\* scrapeWithRetry(scrapeViaPuppeteer) is called
FallBack(f) ==
  [f EXCEPT !.errors = Append(@, "API error"), !.adapter = "puppeteer",
            !.attempt = 1, !.sequences["puppeteer"] = @ + 1, !.pc = "call"]

\* a mutant of Returned: the rendered-page adapter is tried after the
\* structured adapter in any case
ReturnedThenFallBack(f, results) ==
  IF f.adapter = "api" THEN FallBack(f)
  ELSE [f EXCEPT !.data = results, !.method = f.adapter, !.pc = "done"]

\* the adapter returned: scrapeWithRetry returns its results, `method` is set
Returned(f, results) ==
  [f EXCEPT !.data = results, !.method = f.adapter, !.pc = "done"]

\* the adapter threw: the catch of scrapeWithRetry.  On the last attempt the
\* error is rethrown to scrapeCommodityPrices, which falls back from the API
\* or gives up after Puppeteer; otherwise the loop waits.
Threw(f) ==
  LET g == [f EXCEPT !.failed[f.adapter] = @ + 1]
  IN  IF LastAttempt(f.attempt, DefaultMaxRetries)
      THEN IF f.adapter = "api" THEN FallBack(g)
           ELSE [g EXCEPT !.errors = @ \o <<"Puppeteer error", "All scraping methods failed">>,
                          !.pc = "failed"]
      ELSE [g EXCEPT !.pc = "wait"]

\* scrapeViaAPI settles: axios.get answered with a body, or threw
ApiSettle ==
  /\ fetch.pc = "get"
  /\ LET f == [fetch EXCEPT !.inFlight = @ \ {"api"}]
     IN  \/ \E body \in ApiBodies :
              fetch' = Returned([f EXCEPT !.isArray = body.isArray, !.raw = body.data],
                                scrapeViaAPI(body, today))
         \/ fetch' = Threw(f)
  /\ UNCHANGED <<ingestVars, retry, mapping, client, transaction, tierVars>>

\* the backoff timer fires: attempt++
FetchWake ==
  /\ fetch.pc = "wait"
  /\ fetch' = [fetch EXCEPT !.attempt = @ + 1, !.pc = "call"]
  /\ UNCHANGED <<ingestVars, retry, mapping, client, transaction, tierVars>>

\* scrapeViaPuppeteer: puppeteer.launch() gives a browser, or throws
PuppeteerLaunch ==
  /\ fetch.pc = "launch"
  /\ \/ fetch' = [fetch EXCEPT !.browser = "open", !.open = @ + 1,
                               !.launched = @ + 1, !.pc = "page"]
     \/ fetch' = [fetch EXCEPT !.exit = "error", !.pc = "finally"]
  /\ UNCHANGED <<ingestVars, retry, mapping, client, transaction, tierVars>>

\* how the work on the page can end: the rows are extracted, a call throws
\* (navigation error, crash), or goto / waitForSelector times out
PageExits == {"return", "error", "timeout"}

\* scrapeViaPuppeteer: newPage, setUserAgent, goto, waitForSelector, evaluate
\* and the row loop
PuppeteerPage ==
  /\ fetch.pc = "page"
  /\ \E exit \in PageExits :
       IF exit = "return"
       THEN \E rows \in Payloads :
              fetch' = [fetch EXCEPT !.exit = exit, !.pc = "finally", !.raw = rows,
                                     !.results = scrapeViaPuppeteer(rows, today)]
       ELSE fetch' = [fetch EXCEPT !.exit = exit, !.pc = "finally"]
  /\ UNCHANGED <<ingestVars, retry, mapping, client, transaction, tierVars>>

\* a mutant of Finally: the browser is closed on the success path only
FinallyOnReturn(f) ==
  IF f.browser = "open" /\ f.exit = "return"
  THEN [f EXCEPT !.browser = "closed", !.open = @ - 1]
  ELSE f

\* finally { if (browser) await browser.close() }
Finally(f) ==
  IF f.browser = "open"
  THEN [f EXCEPT !.browser = "closed", !.open = @ - 1]
  ELSE f

\* scrapeViaPuppeteer leaves through its finally block and returns or throws
PuppeteerFinally ==
  /\ fetch.pc = "finally"
  /\ LET f == [Finally(fetch) EXCEPT !.inFlight = @ \ {"puppeteer"}]
     IN  fetch' = IF fetch.exit = "return" THEN Returned(f, f.results) ELSE Threw(f)
  /\ UNCHANGED <<ingestVars, retry, mapping, client, transaction, tierVars>>

\* the store phase of the run: upsert and SCRAPER_SUCCESS after a fetch that
\* returned, the catch block after both sequences were exhausted
FetchEnd ==
  /\ fetch.pc \in {"done", "failed"}
  /\ LET j == [NewJob EXCEPT !.runs = job[Cron].runs + 1,
                             !.raw = IF fetch.pc = "done" THEN fetch.raw ELSE <<>>]
     IN  IF fetch.pc = "done"
         THEN Settle(Cron, j, fetch.method, fetch.data, fetch.errors)
         ELSE /\ CatchBlock(Cron, j, fetch.errors, 0)
              /\ UNCHANGED <<commodityPrice, priceHistory>>
  /\ fetch' = [fetch EXCEPT !.pc = "idle"]
  /\ UNCHANGED <<today, ticks, retry, mapping, client, transaction, tierVars>>

-----------------------------------------------------------------------------
(* The tier gateway: accounts, subscriptions, the payment notification that *)
(* activates a subscription, the two expiry reconcilers (hourly job and     *)
(* checkSubscriptionExpiry) and the price routes.  Every awaited store call *)
(* is a step of its own.                                                     *)

FREE == "FREE"
PREMIUM == "PREMIUM"
EXPIRED == "EXPIRED"

Users == {"u1"}

\* a mutant of ActiveSubscriptions: the end date is not tested
ActiveSubscriptionsAnyDate(table, userId, now) ==
  {s \in table : s.userId = userId /\ s.status = PREMIUM}

\* where: { userId, status: PREMIUM, endDate: { gte: new Date() } }
ActiveSubscriptions(table, userId, now) ==
  {s \in table : s.userId = userId /\ s.status = PREMIUM /\ s.endDate >= now}

\* where: { status: PREMIUM, endDate: { lt: new Date() } }
ExpiredSubscriptions(table, now) ==
  {s \in table : s.status = PREMIUM /\ s.endDate < now}

\* a mutant of SetStatus: the rows are left as they are
SetStatusNone(table, ids, status) == table

\* update / updateMany of the status of the rows with the given ids
SetStatus(table, ids, status) ==
  {IF s.id \in ids THEN [s EXCEPT !.status = status] ELSE s : s \in table}

\* the orders in which findMany (no orderBy) can return a set of rows
Orders(rows) ==
  {q \in [1..Cardinality(rows) -> rows] : \A i, k \in DOMAIN q : q[i] = q[k] => i = k}

PaymentIdle == [pc |-> "idle", userId |-> Null]
\* the hourly job: the rows its first findMany returned and the Date of that
\* query, the position of the for loop in them, the result of the inner findMany
ExpiryJobIdle ==
  [pc |-> "idle", now |-> 0, expiredSubs |-> <<>>, i |-> 0, otherActiveSubs |-> {}]
RequestIdle ==
  [pc |-> "idle", userId |-> Null, route |-> Null, arrivedAt |-> 0,
   expiredSubscriptions |-> {}, activeSubscriptions |-> {}, response |-> Null]

TierIdle ==
  /\ user = [u \in Users |-> [status |-> FREE]]
  /\ userSubscription = {}
  /\ payment = PaymentIdle
  /\ expiryJob = ExpiryJobIdle
  /\ request = RequestIdle

\* handlePaymentNotification, a settlement: userSubscription.create
PaymentCreateSubscription ==
  /\ payment.pc = "idle"
  /\ Cardinality(userSubscription) < MaxSubscriptions
  /\ \E u \in Users :
       /\ userSubscription' = userSubscription \cup
            {[id |-> Cardinality(userSubscription) + 1, userId |-> u,
              status |-> PREMIUM, endDate |-> today + PlanDuration]}
       /\ payment' = [pc |-> "updateUser", userId |-> u]
  /\ UNCHANGED <<ingestVars, retry, fetch, mapping, client, transaction, user, expiryJob, request>>

\* handlePaymentNotification: user.update to PREMIUM, then the two log rows
PaymentUpdateUser ==
  /\ payment.pc = "updateUser"
  /\ user' = [user EXCEPT ![payment.userId].status = PREMIUM]
  /\ systemLog' = systemLog
       (+) SetToBag({LogEntry("SUBSCRIPTION_CREATED", "-", 0, <<>>, today)})
       (+) SetToBag({LogEntry("PAYMENT_SUCCESS", "-", 0, <<>>, today)})
  /\ payment' = PaymentIdle
  /\ UNCHANGED <<today, ticks, commodityPrice, priceHistory, job, faults, retry, fetch, mapping, client, transaction,
                 userSubscription, expiryJob, request>>

\* the hourly job fires: findMany of the expired PREMIUM subscriptions
ExpiryFind ==
  /\ expiryJob.pc = "idle"
  /\ ExpiredSubscriptions(userSubscription, today) # {}
  /\ \E subs \in Orders(ExpiredSubscriptions(userSubscription, today)) :
       expiryJob' = [ExpiryJobIdle EXCEPT
                       !.pc = "update", !.now = today, !.expiredSubs = subs, !.i = 1]
  /\ UNCHANGED <<ingestVars, retry, fetch, mapping, client, transaction, user, userSubscription, payment, request>>

\* userSubscription.update of the next expired subscription to EXPIRED
ExpiryUpdate ==
  /\ expiryJob.pc = "update"
  /\ userSubscription' =
       SetStatus(userSubscription, {expiryJob.expiredSubs[expiryJob.i].id}, EXPIRED)
  /\ expiryJob' = [expiryJob EXCEPT !.pc = "findOther"]
  /\ UNCHANGED <<ingestVars, retry, fetch, mapping, client, transaction, user, payment, request>>

\* findMany of the other active subscriptions of the owner
ExpiryFindOther ==
  /\ expiryJob.pc = "findOther"
  /\ expiryJob' = [expiryJob EXCEPT
       !.pc = "downgrade",
       !.otherActiveSubs =
          ActiveSubscriptions(userSubscription,
                              expiryJob.expiredSubs[expiryJob.i].userId, today)]
  /\ UNCHANGED <<ingestVars, retry, fetch, mapping, client, transaction, user, userSubscription, payment, request>>

\* user.update to FREE and the log row if there was none, then the next one
ExpiryDowngrade ==
  /\ expiryJob.pc = "downgrade"
  /\ IF expiryJob.otherActiveSubs = {}
     THEN /\ user' = [user EXCEPT ![expiryJob.expiredSubs[expiryJob.i].userId].status = FREE]
          /\ systemLog' = systemLog
               (+) SetToBag({LogEntry("SUBSCRIPTION_EXPIRED", "-", 0, <<>>, today)})
     ELSE UNCHANGED <<user, systemLog>>
  /\ expiryJob' =
       IF expiryJob.i < Len(expiryJob.expiredSubs)
       THEN [expiryJob EXCEPT !.pc = "update", !.i = @ + 1]
       ELSE ExpiryJobIdle
  /\ UNCHANGED <<today, ticks, commodityPrice, priceHistory, job, faults, retry, fetch, mapping, client, transaction,
                 userSubscription, payment, request>>

Routes == {"national", "live", "history"}

\* an authenticated request arrives at a price route (routes.ts: the national
\* route goes to its controller, the other two through both middlewares)
RequestArrive ==
  /\ request.pc = "idle"
  /\ \E u \in Users, route \in Routes :
       request' = [RequestIdle EXCEPT
                     !.pc = IF route = "national" THEN "controller" ELSE "findExpired",
                     !.userId = u, !.route = route, !.arrivedAt = today]
  /\ UNCHANGED <<ingestVars, retry, fetch, mapping, client, transaction, user, userSubscription, payment, expiryJob>>

\* checkSubscriptionExpiry: findMany of the caller's expired subscriptions
ExpiryCheckFind ==
  /\ request.pc = "findExpired"
  /\ LET expired == {s \in ExpiredSubscriptions(userSubscription, today) :
                        s.userId = request.userId}
     IN  request' = [request EXCEPT
                       !.expiredSubscriptions = expired,
                       !.pc = IF expired # {} THEN "updateMany" ELSE "checkPremium"]
  /\ UNCHANGED <<ingestVars, retry, fetch, mapping, client, transaction, user, userSubscription, payment, expiryJob>>

\* checkSubscriptionExpiry: updateMany of those to EXPIRED
ExpiryCheckUpdateMany ==
  /\ request.pc = "updateMany"
  /\ userSubscription' =
       SetStatus(userSubscription, {s.id : s \in request.expiredSubscriptions}, EXPIRED)
  /\ request' = [request EXCEPT !.pc = "findActive"]
  /\ UNCHANGED <<ingestVars, retry, fetch, mapping, client, transaction, user, payment, expiryJob>>

\* checkSubscriptionExpiry: findMany of the caller's active subscriptions
ExpiryCheckFindActive ==
  /\ request.pc = "findActive"
  /\ LET active == ActiveSubscriptions(userSubscription, request.userId, today)
     IN  request' = [request EXCEPT
                       !.activeSubscriptions = active,
                       !.pc = IF active = {} THEN "downgrade" ELSE "checkPremium"]
  /\ UNCHANGED <<ingestVars, retry, fetch, mapping, client, transaction, user, userSubscription, payment, expiryJob>>

\* checkSubscriptionExpiry: user.update to FREE and the log row, then next()
ExpiryCheckDowngrade ==
  /\ request.pc = "downgrade"
  /\ user' = [user EXCEPT ![request.userId].status = FREE]
  /\ systemLog' = systemLog
       (+) SetToBag({LogEntry("SUBSCRIPTION_EXPIRED", "-", 0, <<>>, today)})
  /\ request' = [request EXCEPT !.pc = "checkPremium"]
  /\ UNCHANGED <<today, ticks, commodityPrice, priceHistory, job, faults, retry, fetch, mapping, client, transaction,
                 userSubscription, payment, expiryJob>>

\* checkSubscriptionExpiry: a store call throws; the catch calls next()
ExpiryCheckThrows ==
  /\ request.pc \in {"findExpired", "updateMany", "findActive", "downgrade"}
  /\ faults < MaxFaults
  /\ faults' = faults + 1
  /\ request' = [request EXCEPT !.pc = "checkPremium"]
  /\ UNCHANGED <<today, ticks, commodityPrice, priceHistory, systemLog, job, retry, fetch, mapping, client, transaction,
                 user, userSubscription, payment, expiryJob>>

\* const hasActivePremium = user.subscriptions.length > 0 || user.status === PREMIUM
hasActivePremium(subscriptions, status) ==
  subscriptions # {} \/ status = PREMIUM

PremiumRequired == [status |-> 403, code |-> "PREMIUM_REQUIRED"]

\* getUserSubscriptionStatus: the account's status and whether it counts as
\* premium (the subscription and daysRemaining fields are left out)
getUserSubscriptionStatus(table, users, userId, now) ==
  LET subscriptions == ActiveSubscriptions(table, userId, now)
  IN  [isPremium |-> users[userId].status = PREMIUM /\ subscriptions # {},
       status |-> users[userId].status]

\* checkPremium: user.findUnique with the active subscriptions, then 403 or next()
CheckPremium ==
  /\ request.pc = "checkPremium"
  /\ LET subscriptions == ActiveSubscriptions(userSubscription, request.userId, today)
     IN  request' =
           IF hasActivePremium(subscriptions, user[request.userId].status)
           THEN [request EXCEPT !.pc = "controller"]
           ELSE [request EXCEPT !.pc = "done", !.response = PremiumRequired]
  /\ UNCHANGED <<ingestVars, retry, fetch, mapping, client, transaction, user, userSubscription, payment, expiryJob>>

\* the fields of a price row that the controllers send
PriceItem(p) ==
  [commodity |-> p.commodity, price |-> p.price, unit |-> p.unit,
   date |-> p.priceDate, updatedAt |-> p.scrapedAt]

\* a mutant of getNationalPrices: the province is left out of the filter
getNationalPricesAnyProvince(table, now) ==
  [status |-> 200, tier |-> "free",
   data |-> {PriceItem(p) : p \in {r \in table : r.priceDate = now /\ r.isActive}}]

\* getNationalPrices: today's active rows of province NASIONAL
getNationalPrices(table, now) ==
  [status |-> 200, tier |-> "free",
   data |-> {PriceItem(p) : p \in {r \in table : /\ r.province = NASIONAL
                                                  /\ r.priceDate = now
                                                  /\ r.isActive}}]

\* getProvincePrices: today's active rows of the province of the query
getProvincePrices(table, province, now) ==
  [status |-> 200, tier |-> "premium",
   data |-> {PriceItem(p) : p \in {r \in table : /\ r.province = province
                                                  /\ r.priceDate = now
                                                  /\ r.isActive}}]

\* getPriceHistory: the ledger rows of a commodity and province since `days`
\* days ago
getPriceHistory(history, commodity, province, days, now) ==
  [status |-> 200, tier |-> "premium",
   data |-> {[date |-> h.priceDate, price |-> h.price] :
               h \in {e \in BagToSet(history) : /\ e.commodity = commodity
                                                /\ e.province = province
                                                /\ e.priceDate >= now - days}}]

\* the controller of the route answers
Controller ==
  /\ request.pc = "controller"
  /\ request' = [request EXCEPT
       !.pc = "done",
       !.response =
          IF request.route = "national" THEN getNationalPrices(commodityPrice, today)
          ELSE IF request.route = "live"
               THEN getProvincePrices(commodityPrice, "JAWA_BARAT", today)
          ELSE getPriceHistory(priceHistory, "BERAS", "JAWA_BARAT", 30, today)]
  /\ UNCHANGED <<ingestVars, retry, fetch, mapping, client, transaction, user, userSubscription, payment, expiryJob>>

\* the response has been sent
RequestDone ==
  /\ request.pc = "done"
  /\ request' = RequestIdle
  /\ UNCHANGED <<ingestVars, retry, fetch, mapping, client, transaction, user, userSubscription, payment, expiryJob>>

\* time passes: to the next day, or to the day after the end of a plan
TierDaySteps == {1, PlanDuration + 1}

TierTick == Advance(TierDaySteps)

\* the price store after two ingestion runs with aggregation on day 0, one
\* per payload, without a store failure
NoFaults(n) == [i \in 1..n |-> Ok]

EmptyStore == [prices |-> {}, history |-> EmptyBag]

StoreAfter(store, rows) ==
  LET data == scrapeViaAPI([isArray |-> TRUE, data |-> rows], 0)
      acc == upsertPricesToDatabase(data, 1, NoFaults(Len(data)), 0,
               [prices |-> store.prices, history |-> store.history,
                successCount |-> 0, errorCount |-> 0])
      units == CHOOSE u \in UnitChoices(acc.prices, 0) : TRUE
  IN  [prices |-> calculateNationalAverages(acc.prices, 1, 0, 0, units),
       history |-> acc.history]

TierStore == StoreAfter(StoreAfter(EmptyStore, ThreeRegions), MixedRows)

-----------------------------------------------------------------------------
(* The API client of the frontend: apiRequest with its refresh of the access *)
(* token.  The code between two awaits runs without interruption, so every   *)
(* step is the settling of one awaited fetch together with the code that     *)
(* follows it up to the next await.                                          *)

RequestIds == 1..MaxRequests

\* the answers of the backend to a request: 2xx, 401 with code TOKEN_EXPIRED,
\* or any other failure (another status, a network error)
Responses == {"ok", "tokenExpired", "error"}

\* accessToken, isRefreshing, refreshSubscribers as declared, and the calls of
\* apiRequest: where each is, and its `retry` option
ClientIdle ==
  [accessToken |-> "expired", isRefreshing |-> FALSE, refreshSubscribers |-> <<>>,
   requests |-> [r \in RequestIds |-> [pc |-> "idle", retry |-> TRUE]]]

\* a mutant of AlreadyRefreshing: the flag is not consulted
AlreadyRefreshingNever(c) == FALSE

\* if (isRefreshing)
AlreadyRefreshing(c) == c.isRefreshing

\* onTokenRefreshed: every subscriber's callback is called, each calls
\* apiRequest again with retry: false and gets to its fetch; the list is emptied
onTokenRefreshed(c) ==
  [c EXCEPT !.requests =
              [r \in RequestIds |->
                 IF \E k \in DOMAIN c.refreshSubscribers : c.refreshSubscribers[k] = r
                 THEN [pc |-> "fetch", retry |-> FALSE]
                 ELSE c.requests[r]],
            !.refreshSubscribers = <<>>]

\* apiRequest is called: the token is attached and fetch(url, config) is awaited
ApiRequest(r) ==
  /\ client.requests[r].pc = "idle"
  /\ client' = [client EXCEPT !.requests[r].pc = "fetch"]
  /\ UNCHANGED <<ingestVars, retry, fetch, mapping, transaction, tierVars>>

\* the fetch of a request settles.  On 401 TOKEN_EXPIRED with retry: the
\* request subscribes if a refresh is under way, otherwise it sets the flag
\* and calls refreshAccessToken, which posts to /auth/refresh.  Otherwise the
\* promise resolves with the body or rejects with an ApiError.
ApiResponse(r) ==
  /\ client.requests[r].pc = "fetch"
  /\ \E response \in Responses :
       client' =
         IF response = "tokenExpired" /\ client.requests[r].retry
         THEN IF AlreadyRefreshing(client)
              THEN [client EXCEPT !.refreshSubscribers = Append(@, r),
                                  !.requests[r].pc = "subscribed"]
              ELSE [client EXCEPT !.isRefreshing = TRUE, !.requests[r].pc = "refresh"]
         ELSE IF response = "ok"
              THEN [client EXCEPT !.requests[r].pc = "resolved"]
              ELSE [client EXCEPT !.requests[r].pc = "rejected"]
  /\ UNCHANGED <<ingestVars, retry, fetch, mapping, transaction, tierVars>>

\* refreshAccessToken settles with the new token or with null, and the request
\* that called it goes on: the flag is cleared; with a token the subscribers
\* are called and the request is sent again with retry: false; with null it
\* throws 'Session expired'
RefreshSettles(r) ==
  /\ client.requests[r].pc = "refresh"
  /\ \E newToken \in {"valid", Null} :
       client' =
         IF newToken # Null
         THEN [onTokenRefreshed([client EXCEPT !.accessToken = newToken,
                                               !.isRefreshing = FALSE])
                 EXCEPT !.requests[r] = [pc |-> "fetch", retry |-> FALSE]]
         ELSE [client EXCEPT !.accessToken = Null, !.isRefreshing = FALSE,
                             !.requests[r].pc = "rejected"]
  /\ UNCHANGED <<ingestVars, retry, fetch, mapping, transaction, tierVars>>

-----------------------------------------------------------------------------
(* handlePaymentNotification as a whole: the status switch, the update of    *)
(* the transaction and, for a successful payment, the activation.            *)

PENDING == "PENDING"
SUCCESS == "SUCCESS"
CANCELLED == "CANCELLED"

OrderIds == {"order-1", "order-2"}

\* notification.transaction_status ("refund" stands for the values the switch
\* does not list) and notification.fraud_status
TransactionStatuses ==
  {"capture", "settlement", "pending", "deny", "cancel", "expire", "refund"}
FraudStatuses == {"accept", "challenge"}

\* the rows createTransaction leaves: PENDING, no notification received yet
TransactionsPending ==
  [o \in OrderIds |-> [status |-> PENDING, userId |-> "u1", received |-> 0]]

NotificationsReceived ==
  LET RECURSIVE Sum(_)
      Sum(S) == IF S = {} THEN 0
                ELSE LET o == CHOOSE x \in S : TRUE
                     IN  transaction[o].received + Sum(S \ {o})
  IN  Sum(OrderIds)

\* the switch on transaction_status: newStatus
NewStatus(transaction_status, fraud_status) ==
  CASE transaction_status = "capture" ->
         IF fraud_status = "accept" THEN SUCCESS ELSE PENDING
    [] transaction_status = "settlement" -> SUCCESS
    [] transaction_status = "pending" -> PENDING
    [] transaction_status \in {"deny", "cancel"} -> CANCELLED
    [] transaction_status = "expire" -> EXPIRED
    [] OTHER -> PENDING

\* the switch on transaction_status: shouldActivateSubscription
ShouldActivateSubscription(transaction_status, fraud_status) ==
  \/ transaction_status = "capture" /\ fraud_status = "accept"
  \/ transaction_status = "settlement"

\* a notification with a valid signature for a known order is handled
HandlePaymentNotification(o, transaction_status, fraud_status) ==
  LET newStatus == NewStatus(transaction_status, fraud_status)
      userId == transaction[o].userId
  IN  /\ NotificationsReceived < MaxNotifications
      /\ transaction' = [transaction EXCEPT ![o].status = newStatus,
                                            ![o].received = @ + 1]
      /\ IF ShouldActivateSubscription(transaction_status, fraud_status)
         THEN /\ Cardinality(userSubscription) < MaxSubscriptions
              /\ userSubscription' = userSubscription \cup
                   {[id |-> Cardinality(userSubscription) + 1, userId |-> userId,
                     status |-> PREMIUM, endDate |-> today + PlanDuration]}
              /\ user' = [user EXCEPT ![userId].status = PREMIUM]
              /\ systemLog' = systemLog
                   (+) SetToBag({LogEntry("SUBSCRIPTION_CREATED", "-", 0, <<>>, today)})
                   (+) SetToBag({LogEntry("PAYMENT_SUCCESS", "-", 0, <<>>, today)})
         ELSE /\ UNCHANGED <<userSubscription, user>>
              /\ systemLog' =
                   IF newStatus = CANCELLED
                   THEN systemLog (+) SetToBag({LogEntry("PAYMENT_FAILED", "-", 0, <<>>, today)})
                   ELSE systemLog
      /\ UNCHANGED <<today, ticks, commodityPrice, priceHistory, job, faults, retry, fetch,
                     mapping, client, payment, expiryJob, request>>

-----------------------------------------------------------------------------
(* The specifications *)

Init ==
  /\ today = 0
  /\ ticks = 0
  /\ commodityPrice = {}
  /\ priceHistory = EmptyBag
  /\ systemLog = EmptyBag
  /\ job = [p \in Procs |-> NewJob]
  /\ faults = 0
  /\ retry = RetryIdle
  /\ fetch = FetchIdle
  /\ mapping = MappingIdle
  /\ client = ClientIdle
  /\ transaction = TransactionsPending
  /\ TierIdle

Next ==
  \/ \E p \in Procs : Scrape(p)
  \/ \E p \in Procs : Averages(p)
  \/ WeeklyCleanup
  \/ Tick

vars == <<ingestVars, retry, fetch, mapping, client, transaction, tierVars>>

Spec == Init /\ [][Next]_vars

\* scrapeWithRetry alone
InitRetry ==
  /\ today = 0
  /\ ticks = 0
  /\ commodityPrice = {}
  /\ priceHistory = EmptyBag
  /\ systemLog = EmptyBag
  /\ job = [p \in Procs |-> NewJob]
  /\ faults = 0
  /\ retry \in RetryCalls
  /\ fetch = FetchIdle
  /\ mapping = MappingIdle
  /\ client = ClientIdle
  /\ transaction = TransactionsPending
  /\ TierIdle

NextRetry ==
  \/ RetryAttempt
  \/ RetryWake

SpecRetry == InitRetry /\ [][NextRetry]_vars

\* scrapeCommodityPrices taken call by call, run by the daily job
NextFetch ==
  \/ FetchStart
  \/ FetchCall
  \/ ApiSettle
  \/ FetchWake
  \/ PuppeteerLaunch
  \/ PuppeteerPage
  \/ PuppeteerFinally
  \/ FetchEnd
  \/ Averages(Cron)

SpecFetch == Init /\ [][NextFetch]_vars

\* the same run with progress: a pending call settles (the request and the
\* page operations carry timeouts), a backoff timer fires, a continuation runs
SpecFetchFair == SpecFetch /\ WF_vars(NextFetch)

\* the label functions alone
InitLabels ==
  /\ today = 0
  /\ ticks = 0
  /\ commodityPrice = {}
  /\ priceHistory = EmptyBag
  /\ systemLog = EmptyBag
  /\ job = [p \in Procs |-> NewJob]
  /\ faults = 0
  /\ retry = RetryIdle
  /\ fetch = FetchIdle
  /\ mapping \in MappingCalls
  /\ client = ClientIdle
  /\ transaction = TransactionsPending
  /\ TierIdle

NextLabels ==
  \/ MapCommodity
  \/ MapProvince
  \/ FindMatchingCommodity

SpecLabels == InitLabels /\ [][NextLabels]_vars

\* the tier gateway over a price store that ingestion has filled
InitTier ==
  /\ today = 0
  /\ ticks = 0
  /\ commodityPrice = TierStore.prices
  /\ priceHistory = TierStore.history
  /\ systemLog = EmptyBag
  /\ job = [p \in Procs |-> NewJob]
  /\ faults = 0
  /\ retry = RetryIdle
  /\ fetch = FetchIdle
  /\ mapping = MappingIdle
  /\ client = ClientIdle
  /\ transaction = TransactionsPending
  /\ TierIdle

NextTier ==
  \/ PaymentCreateSubscription
  \/ PaymentUpdateUser
  \/ ExpiryFind
  \/ ExpiryUpdate
  \/ ExpiryFindOther
  \/ ExpiryDowngrade
  \/ RequestArrive
  \/ ExpiryCheckFind
  \/ ExpiryCheckUpdateMany
  \/ ExpiryCheckFindActive
  \/ ExpiryCheckDowngrade
  \/ ExpiryCheckThrows
  \/ CheckPremium
  \/ Controller
  \/ RequestDone
  \/ TierTick

SpecTier == InitTier /\ [][NextTier]_vars

\* the API client alone
NextClient ==
  \/ \E r \in RequestIds : ApiRequest(r)
  \/ \E r \in RequestIds : ApiResponse(r)
  \/ \E r \in RequestIds : RefreshSettles(r)

SpecClient == InitTier /\ [][NextClient]_vars

\* ... with every fetch that was sent settling
SpecClientFair ==
  /\ SpecClient
  /\ \A r \in RequestIds : WF_vars(ApiResponse(r)) /\ WF_vars(RefreshSettles(r))

\* the payment notifications alone
NextPayment ==
  \/ \E o \in OrderIds, ts \in TransactionStatuses, fs \in FraudStatuses :
       HandlePaymentNotification(o, ts, fs)
  \/ TierTick

SpecPayment == InitTier /\ [][NextPayment]_vars

-----------------------------------------------------------------------------
(* Properties of ingestion and aggregation, checked under Spec *)

\* the rows of the ledger for one key
HistoryCount(commodity, province, priceDate) ==
  BagCardinality([e \in {x \in BagToSet(priceHistory) :
                           /\ x.commodity = commodity
                           /\ x.province = province
                           /\ x.priceDate = priceDate} |-> priceHistory[e]])

ActiveRecords(commodity, province, priceDate) ==
  {r \in commodityPrice : SameKey(r, commodity, province, priceDate) /\ r.isActive}

\* the keys a batch maps to, and the observations of a batch that map to a key
KeysOf(data) ==
  {<<CommodityOf[data[i].commodity], ProvinceOf[data[i].province]>> : i \in DOMAIN data}
Observations(data, key) ==
  Cardinality({i \in DOMAIN data :
     <<CommodityOf[data[i].commodity], ProvinceOf[data[i].province]>> = key})

\* scrapeCommodityPrices has run exactly twice, today, on the same non-empty
\* data, every row was stored, and nothing else has run since
SameDataTwice ==
  /\ \A p \in Procs : /\ job[p].pc = "averages"
                      /\ job[p].runs = 1
                      /\ job[p].success
                      /\ job[p].priceDate = today
                      /\ job[p].successCount = Len(job[p].data)
  /\ job[Cron].data = job[Admin].data
  /\ job[Cron].data # <<>>

C2_UniqueActiveRecord ==
  \A r, s \in commodityPrice :
    (r.isActive /\ s.isActive /\ SameKey(r, s.commodity, s.province, s.priceDate)) => r = s

\* a key that was written more than once, with a different price, and an
\* aggregate next to it
C2_Witness ==
  \E r \in commodityPrice :
    /\ r.isActive
    /\ HistoryCount(r.commodity, r.province, r.priceDate) >= 2
    /\ \E e \in BagToSet(priceHistory) :
         /\ SameKey(r, e.commodity, e.province, e.priceDate)
         /\ e.price # r.price
    /\ \E n \in commodityPrice : n.sourceUrl = Calculated /\ n.commodity = r.commodity

\* a step of calculateNationalAverages by caller p
AveragesStep(p) == job[p].pc = "averages" /\ job'[p].pc = "idle"

\* the active rows of a commodity and date outside NASIONAL, and its
\* NASIONAL rows
Regional(table, commodity, date) ==
  {r \in table : /\ r.commodity = commodity
                 /\ r.priceDate = date
                 /\ r.isActive
                 /\ r.province # NASIONAL}
National(table, commodity) ==
  {r \in table : r.commodity = commodity /\ r.province = NASIONAL}

\* price is an integer nearest to the mean of the rows' prices
NearestToMean(price, rows) ==
  LET n == Cardinality(rows)
      total == SumPrices(rows)
  IN  /\ 2 * (n * price - total) <= n
      /\ 2 * (total - n * price) <= n

(* C6: after calculateNationalAverages (no store call of it failing), every  *)
(* commodity with at least one active non-NASIONAL row for the date has an   *)
(* active NASIONAL row for that date whose price is the rows' mean rounded   *)
(* to the nearest integer.                                                   *)
C6_NationalIsRoundedMean ==
  [][\A p \in Procs :
       (AveragesStep(p) /\ faults' = faults) =>
         \A i \in DOMAIN CommodityType :
           LET regional == Regional(commodityPrice', CommodityType[i], today)
           IN  regional # {} =>
                 \E n \in National(commodityPrice', CommodityType[i]) :
                   /\ n.priceDate = today
                   /\ n.isActive
                   /\ NearestToMean(n.price, regional)]_vars

\* regional prices 10000, 12000 and 14000 and a computed NASIONAL row of 12000
C6_Witness ==
  /\ {r.price : r \in Regional(commodityPrice, "BERAS", today)} = {10000, 12000, 14000}
  /\ \E n \in National(commodityPrice, "BERAS") :
       /\ n.priceDate = today
       /\ n.isActive
       /\ n.sourceUrl = Calculated
       /\ n.price = 12000

(* C7: calculateNationalAverages leaves the NASIONAL rows of a commodity     *)
(* with no active non-NASIONAL row for the date as they are, and (no store   *)
(* call failing) still writes the NASIONAL row of every later commodity that *)
(* has such rows.                                                            *)
C7_SkipsCommodityWithoutRows ==
  [][\A p \in Procs :
       AveragesStep(p) =>
         \A i \in DOMAIN CommodityType :
           Regional(commodityPrice, CommodityType[i], today) = {} =>
             /\ National(commodityPrice', CommodityType[i])
                  = National(commodityPrice, CommodityType[i])
             /\ faults' = faults =>
                  \A k \in (i + 1)..Len(CommodityType) :
                    Regional(commodityPrice, CommodityType[k], today) # {} =>
                      \E n \in National(commodityPrice', CommodityType[k]) :
                        n.priceDate = today /\ n.scrapedAt = today]_vars

\* TOMAT has a NASIONAL row from the source and no regional row: the row is
\* as ingested, while WORTEL, later in the enum, has its computed row
C7_Witness ==
  /\ Regional(commodityPrice, "TOMAT", today) = {}
  /\ \E t \in National(commodityPrice, "TOMAT") :
       t.priceDate = today /\ t.sourceUrl = BaseUrl /\ t.price = 12000
  /\ \E n \in National(commodityPrice, "WORTEL") :
       n.priceDate = today /\ n.sourceUrl = Calculated

(* C8, as stated: a NASIONAL row exists for a (commodity, date) only if a    *)
(* non-NASIONAL row exists for that (commodity, date).                       *)
C8_NationalOnlyWithRegional ==
  \A n \in commodityPrice :
    n.province = NASIONAL =>
      \E r \in commodityPrice :
        r.commodity = n.commodity /\ r.priceDate = n.priceDate /\ r.province # NASIONAL

(* C8, amended: a NASIONAL row written by the aggregator (source             *)
(* 'calculated') exists for a (commodity, date) only if a non-NASIONAL row   *)
(* exists for that (commodity, date); the source's own national rows are     *)
(* stored as NASIONAL rows whatever else exists.                             *)
C8_CalculatedOnlyWithRegional ==
  \A n \in commodityPrice :
    (n.province = NASIONAL /\ n.sourceUrl = Calculated) =>
      \E r \in commodityPrice :
        r.commodity = n.commodity /\ r.priceDate = n.priceDate /\ r.province # NASIONAL

\* an aggregate next to a national row that came from the source
C8_Witness ==
  /\ \E n \in commodityPrice : n.province = NASIONAL /\ n.sourceUrl = Calculated
  /\ \E n \in commodityPrice : n.province = NASIONAL /\ n.sourceUrl = BaseUrl

-----------------------------------------------------------------------------
(* Properties of scrapeWithRetry, checked under SpecRetry *)

(* C9: an operation that fails every time is called exactly maxRetries       *)
(* times, then scrapeWithRetry throws and calls it no more; an operation     *)
(* that first returns on call k <= maxRetries is called exactly k times and  *)
(* what it returned is returned.                                             *)
C9_AttemptCounts ==
  /\ retry.calls <= retry.maxRetries
  /\ retry.pc # "empty"
  /\ retry.pc = "threw" => retry.firstOk > retry.maxRetries /\ retry.calls = retry.maxRetries
  /\ retry.pc = "returned" =>
       /\ retry.firstOk <= retry.maxRetries
       /\ retry.calls = retry.firstOk
       /\ retry.result = retry.value
  /\ retry.firstOk <= retry.maxRetries => retry.calls <= retry.firstOk

\* the default of three attempts, all failed; scrapeWithRetry has thrown
C9_Witness ==
  /\ retry.pc = "threw"
  /\ retry.maxRetries = DefaultMaxRetries
  /\ retry.calls = 3

\* ms is within a quarter of target
About(ms, target) == 4 * ms >= 3 * target /\ 4 * ms <= 5 * target

\* scrapeWithRetry has thrown after three failed attempts
ThreeFailedAttempts ==
  retry.pc = "threw" /\ retry.maxRetries = 3

(* C10, as stated: with three attempts the waits are about 1 s and about     *)
(* 2 s; no wait exceeds 30 s and no wait follows the last failed attempt.    *)
C10_WaitsOneThenTwoSeconds ==
  /\ ThreeFailedAttempts =>
       /\ Len(retry.delays) = 2
       /\ About(retry.delays[1], 1000)
       /\ About(retry.delays[2], 2000)
  /\ \A i \in DOMAIN retry.delays : retry.delays[i] <= 30000

(* C10, amended: with three attempts the waits are 2 s between the first     *)
(* and second attempt and 4 s between the second and third (the wait after   *)
(* failed attempt n is min(1 s * 2^n, 30 s)); no wait exceeds 30 s and no    *)
(* wait follows the last failed attempt.                                     *)
C10_WaitsTwoThenFourSeconds ==
  /\ ThreeFailedAttempts => retry.delays = <<2000, 4000>>
  /\ \A i \in DOMAIN retry.delays : retry.delays[i] <= 30000
  /\ retry.pc = "threw" => Len(retry.delays) = retry.calls - 1
  /\ Len(retry.delays) <= retry.calls

\* six attempts, all failed: the fifth wait is the cap, not 32 s
C10_Witness ==
  /\ retry.pc = "threw"
  /\ retry.maxRetries = 6
  /\ retry.delays = <<2000, 4000, 8000, 16000, 30000>>

\* the last error the operation threw
LastCaught == retry.caught[Len(retry.caught)]

(* C11, as stated: when every attempt fails, scrapeWithRetry throws an       *)
(* ExhaustedRetries error carrying the number of attempts made and the last  *)
(* underlying cause, not the raw underlying error.                           *)
C11_ThrowsExhaustedRetries ==
  retry.pc = "threw" =>
    /\ retry.error.name = "ExhaustedRetries"
    /\ retry.error.attempts = retry.calls
    /\ retry.error.lastCause = LastCaught

(* C11, amended: when every attempt fails, scrapeWithRetry throws the error  *)
(* of the last attempt itself, unwrapped and without an attempt count; it    *)
(* throws nothing before the last attempt has failed.                        *)
C11_RethrowsLastError ==
  /\ retry.pc = "threw" =>
       /\ Len(retry.caught) = retry.maxRetries
       /\ retry.error = LastCaught
       /\ retry.error \in MethodErrors
  /\ retry.pc # "threw" => retry.error = NoError

\* three attempts failed with different errors: the one thrown is the third
C11_Witness ==
  /\ retry.pc = "threw"
  /\ retry.maxRetries = DefaultMaxRetries
  /\ retry.caught[1] # retry.caught[3]
  /\ retry.caught[2] # retry.caught[3]
  /\ retry.error = retry.caught[3]

-----------------------------------------------------------------------------
(* Properties of whole runs, checked under Spec *)

\* the elements of a sequence
Range(s) == {s[i] : i \in DOMAIN s}

\* a call of scrapeCommodityPrices by p settles in this step
ScrapeStep(p) == job'[p].runs = job[p].runs + 1

\* ... after both retry sequences were exhausted
BothExhausted(p) ==
  ScrapeStep(p) /\ "Puppeteer error" \in Range(job'[p].result.errors)

\* the SCRAPER_ERROR entries of a log
ScraperErrors(log) == {e \in BagToSet(log) : e.type = "SCRAPER_ERROR"}

(* C14: if both adapters exhaust their retries, the run returns success      *)
(* false, records one SCRAPER_ERROR entry whose error list holds the errors  *)
(* of both adapters, and creates or modifies no CommodityRecord and no       *)
(* PriceHistoryEntry.                                                        *)
C14_ExhaustionIsRecordedFailure ==
  [][\A p \in Procs :
       BothExhausted(p) =>
         /\ job'[p].result.settled = "returned"
         /\ ~job'[p].result.success
         /\ BagCardinality(systemLog') = BagCardinality(systemLog) + 1
         /\ \E e \in ScraperErrors(systemLog') :
              /\ CopiesIn(e, systemLog') = CopiesIn(e, systemLog) + 1
              /\ {"API error", "Puppeteer error"} \subseteq Range(e.errors)
         /\ UNCHANGED <<commodityPrice, priceHistory>>]_vars

\* the indices of the rows of a response whose two labels map
MappedIndices(raw) ==
  {i \in DOMAIN raw : CommodityOf[raw[i].commodity] # Null /\ ProvinceOf[raw[i].province] # Null}

\* the row i of a response is stored as a record of day `now`
Persisted(table, raw, i, now) ==
  \E r \in table :
    /\ SameKey(r, CommodityOf[raw[i].commodity], ProvinceOf[raw[i].province], now)
    /\ r.isActive

\* a call of scrapeCommodityPrices by p settles in this step, its data coming
\* from a response that had a row with a label that maps to nothing
NotFoundStep(p) ==
  /\ ScrapeStep(p)
  /\ MappedIndices(job'[p].result.raw) # DOMAIN job'[p].result.raw

PersistedItem(table, item, now) ==
  \E r \in table :
    /\ SameKey(r, CommodityOf[item.commodity], ProvinceOf[item.province], now)
    /\ r.isActive

\* a call of scrapeCommodityPrices by p returns in this step after
\* upsertPricesToDatabase went through a batch
UpsertStep(p) ==
  /\ ScrapeStep(p)
  /\ job'[p].result.success
  /\ job'[p].data # <<>>

(* C19: in the upsert of a batch a write failure on one observation does not *)
(* prevent the processing of a later one: every observation is attempted,    *)
(* succeeded + failed equals the batch size, the failed ones are as many as  *)
(* the store failures, every success has appended its history entry and at   *)
(* most `failed` observations are not stored.                                *)
C19_BatchContinuesAfterFailure ==
  [][\A p \in Procs :
       UpsertStep(p) =>
         LET batch == job'[p].data
         IN  /\ job'[p].successCount + job'[p].errorCount = Len(batch)
             /\ job'[p].errorCount = faults' - faults
             /\ BagCardinality(priceHistory') =
                  BagCardinality(priceHistory) + job'[p].successCount
             /\ Cardinality({i \in DOMAIN batch :
                               ~PersistedItem(commodityPrice', batch[i], today)})
                  <= job'[p].errorCount]_vars

\* the write of the first observation of a batch of three failed, and the
\* two after it are stored
C19_Witness ==
  \E p \in Procs :
    /\ job[p].pc = "averages"
    /\ Len(job[p].data) = 3
    /\ job[p].errorCount = 1
    /\ job[p].successCount = 2
    /\ ~PersistedItem(commodityPrice, job[p].data[1], today)
    /\ PersistedItem(commodityPrice, job[p].data[2], today)
    /\ PersistedItem(commodityPrice, job[p].data[3], today)

\* the callers whose execution of the ingestion job is in progress
Running == {p \in Procs : job[p].pc # "idle"}

(* C20: no two executions of the ingestion job overlap: a trigger of the     *)
(* daily job or a manual ingestion that comes while an execution is still    *)
(* running is skipped, so at most one execution is in progress at any time.  *)
C20_NoOverlappingRuns ==
  Cardinality(Running) <= 1

(* C21: in the daily job calculateNationalAverages starts only after the     *)
(* scrapeCommodityPrices of the same invocation has returned, and only if    *)
(* it returned success; after a failed run, and after a run that threw, the  *)
(* invocation is over: the aggregator is not run and nothing is attempted    *)
(* again until the trigger fires anew.                                       *)
C21_DailyAggregatesAfterSuccess ==
  [][/\ AveragesStep(Cron) =>
          /\ job[Cron].result.settled = "returned"
          /\ job[Cron].result.success
     /\ (ScrapeStep(Cron) /\ job'[Cron].result.success) => job'[Cron].pc = "averages"
     /\ (ScrapeStep(Cron) /\ ~job'[Cron].result.success) =>
          job'[Cron].pc = "idle"]_vars

\* the daily job's run failed with both adapters exhausted and the invocation
\* is over without the aggregator
C21_Witness ==
  /\ job[Cron].pc = "idle"
  /\ job[Cron].runs = 1
  /\ job[Cron].result.settled = "returned"
  /\ ~job[Cron].result.success
  /\ "Puppeteer error" \in Range(job[Cron].result.errors)
  /\ \A r \in commodityPrice : r.sourceUrl # Calculated

(* C22: POST /admin/scrape has the contract of the daily job: it runs        *)
(* scrapeCommodityPrices and then calculateNationalAverages only if that     *)
(* run returned success.                                                     *)
C22_AdminAggregatesAfterSuccess ==
  [][/\ AveragesStep(Admin) =>
          /\ job[Admin].result.settled = "returned"
          /\ job[Admin].result.success
     /\ (ScrapeStep(Admin) /\ ~job'[Admin].result.success) => job'[Admin].pc = "idle"]_vars

\* the weekly cleanup is the step that writes the price table while no job
\* moves
CleanupStep ==
  job' = job /\ today' = today /\ commodityPrice' # commodityPrice

(* C25: no run of scrapeCommodityPrices, calculateNationalAverages or the     *)
(* weekly cleanup deletes a price record or deletes or changes a history     *)
(* entry: every key of the price table stays, the history only grows, and    *)
(* the cleanup changes nothing of a record but the active flag, which it     *)
(* clears on records whose price date is a retention window old.             *)
C25_NothingDeletedHistoryGrows ==
  [][/\ \A r \in commodityPrice :
          \E n \in commodityPrice' : SameKey(n, r.commodity, r.province, r.priceDate)
     /\ \A e \in BagToSet(priceHistory) :
          CopiesIn(e, priceHistory') >= CopiesIn(e, priceHistory)
     /\ CleanupStep =>
          /\ priceHistory' = priceHistory
          /\ Cardinality(commodityPrice') = Cardinality(commodityPrice)
          /\ \A r \in commodityPrice :
               \/ r \in commodityPrice'
               \/ /\ r.isActive
                  /\ r.priceDate + PriceRetentionDays <= today
                  /\ [r EXCEPT !.isActive = FALSE] \in commodityPrice']_vars

\* a record was overwritten with another price and later deactivated by the
\* cleanup; the history still holds the entry with the first price
C25_Witness ==
  \E r \in commodityPrice :
    /\ ~r.isActive
    /\ r.priceDate + PriceRetentionDays <= today
    /\ \E e \in BagToSet(priceHistory) :
         /\ SameKey(e, r.commodity, r.province, r.priceDate)
         /\ e.price # r.price

\* the entries of the log that record an ingestion run
IngestionRuns(log) ==
  BagCardinality([e \in {x \in BagToSet(log) :
                           x.type \in {"SCRAPER_SUCCESS", "SCRAPER_ERROR"}} |-> log[e]])

(* C26: every call of scrapeCommodityPrices, whatever its outcome, adapter    *)
(* and item count, adds exactly one SCRAPER_SUCCESS or SCRAPER_ERROR entry   *)
(* to the log.                                                               *)
C26_OneLogEntryPerRun ==
  [][\A p \in Procs :
       ScrapeStep(p) => IngestionRuns(systemLog') = IngestionRuns(systemLog) + 1]_vars

(* C27: scrapeCommodityPrices never throws to its caller: whatever fails    *)
(* inside it, the call returns a result, and after the exhaustion of both    *)
(* adapters that result has success = false and carries the errors.          *)
C27_NeverThrowsToCaller ==
  /\ \A p \in Procs : job[p].result.settled # "threw"
  /\ \A p \in Procs :
       "Puppeteer error" \in Range(job[p].result.errors) =>
         job[p].result.settled = "returned" /\ ~job[p].result.success

\* the history holds an entry of day `now` for the item, with its price
HistoryItem(history, item, now) ==
  \E e \in BagToSet(history) :
    /\ SameKey(e, CommodityOf[item.commodity], ProvinceOf[item.province], now)
    /\ e.price = item.price

(* C28: for each observation of a batch both the upsert of the record and    *)
(* the append of the history entry are attempted even if one of them fails:  *)
(* when a single write of the batch has failed, every observation has its    *)
(* record or its history entry, and an observation whose upsert failed has   *)
(* its history entry.                                                        *)
C28_BothWritesAttempted ==
  [][\A p \in Procs :
       (UpsertStep(p) /\ job'[p].errorCount = 1) =>
         \A i \in DOMAIN job'[p].data :
           \/ PersistedItem(commodityPrice', job'[p].data[i], today)
           \/ HistoryItem(priceHistory', job'[p].data[i], today)]_vars

(* C29: every successful upsert of a price record, the NASIONAL record of    *)
(* calculateNationalAverages included, is followed by the append of one      *)
(* history entry of the same commodity, province, price and date, so every   *)
(* stored (commodity, province, date) has at least one history entry and the *)
(* price of the record is the price of one of them.                          *)
C29_EveryRecordHasHistory ==
  \A r \in commodityPrice :
    /\ HistoryCount(r.commodity, r.province, r.priceDate) >= 1
    /\ \E e \in BagToSet(priceHistory) :
         SameKey(e, r.commodity, r.province, r.priceDate) /\ e.price = r.price

(* C30: the record written for an observation has as its price date the     *)
(* calendar day of the observation's date; after a batch whose writes all    *)
(* succeeded every observation has an active record under its key and that   *)
(* day, written in this run, and no key of the table is doubled.             *)
C30_RecordUnderObservationDay ==
  [][\A p \in Procs :
       (UpsertStep(p) /\ job'[p].errorCount = 0) =>
         /\ \A i \in DOMAIN job'[p].data :
              \E r \in commodityPrice' :
                /\ SameKey(r, CommodityOf[job'[p].data[i].commodity],
                              ProvinceOf[job'[p].data[i].province], job'[p].data[i].date)
                /\ r.isActive
                /\ r.scrapedAt = today
         /\ \A r, n \in commodityPrice' :
              SameKey(n, r.commodity, r.province, r.priceDate) => n = r]_vars

\* the number of history entries of a key and day in a ledger
HistoryRows(history, commodity, province, priceDate) ==
  BagCardinality([e \in {x \in BagToSet(history) :
                           SameKey(x, commodity, province, priceDate)} |-> history[e]])

\* the positions of the observations of a batch that map to a key
IndicesOf(data, key) ==
  {i \in DOMAIN data :
     <<CommodityOf[data[i].commodity], ProvinceOf[data[i].province]>> = key}

\* the last of a non-empty set of positions
Last(indices) == CHOOSE i \in indices : \A k \in indices : k <= i

(* C37: when a batch holds several observations whose labels map to one      *)
(* (commodity, province), and every write succeeds, the upsert leaves a      *)
(* single record for that key and day, with the price of the last of them in *)
(* batch order, and the history gets one entry per observation.              *)
C37_LastObservationWins ==
  [][\A p \in Procs :
       (UpsertStep(p) /\ job'[p].errorCount = 0) =>
         \A key \in KeysOf(job'[p].data) :
           LET data == job'[p].data
               records == {r \in commodityPrice' : SameKey(r, key[1], key[2], today)}
           IN  /\ Cardinality(records) = 1
               /\ \A r \in records :
                    r.price = data[Last(IndicesOf(data, key))].price /\ r.isActive
               /\ HistoryRows(priceHistory', key[1], key[2], today) =
                    HistoryRows(priceHistory, key[1], key[2], today)
                      + Cardinality(IndicesOf(data, key))]_vars

\* a run has stored 'Beras Premium' and ' beras medium' of one province: one
\* record with the price of the second, and a history entry for each
C37_Witness ==
  \E p \in Procs :
    /\ job[p].runs = 1 /\ TotalRuns = 1
    /\ job[p].data # <<>>
    /\ job[p].errorCount = 0
    /\ \E key \in KeysOf(job[p].data) :
         /\ Cardinality(IndicesOf(job[p].data, key)) = 2
         /\ \E r \in commodityPrice :
              /\ SameKey(r, key[1], key[2], today)
              /\ r.price = 13002
         /\ HistoryRows(priceHistory, key[1], key[2], today) = 2
         /\ \E e \in BagToSet(priceHistory) :
              SameKey(e, key[1], key[2], today) /\ e.price = 15000

(* C38: if a call of scrapeCommodityPrices returns success = false, the      *)
(* call has created or modified no price record and no history entry.        *)
C38_FailedRunTouchesNothing ==
  [][\A p \in Procs :
       (/\ ScrapeStep(p)
        /\ job'[p].result.settled = "returned"
        /\ ~job'[p].result.success) =>
         /\ commodityPrice' = commodityPrice
         /\ priceHistory' = priceHistory]_vars

-----------------------------------------------------------------------------
(* Properties of the fetch phase of one run, checked under SpecFetch *)

(* C12: within one ingestion run the rendered-page adapter is first invoked  *)
(* only after the structured adapter has failed all maxRetries attempts; the *)
(* two adapters are never in flight at the same time; the rendered-page      *)
(* retry sequence is started at most once per run; and a run whose           *)
(* structured adapter succeeded never invoked the rendered-page adapter.     *)
C12_SequentialFallback ==
  /\ fetch.calls["puppeteer"] > 0 =>
       /\ fetch.failed["api"] = DefaultMaxRetries
       /\ fetch.calls["api"] = DefaultMaxRetries
  /\ fetch.sequences["puppeteer"] > 0 => fetch.failed["api"] = DefaultMaxRetries
  /\ Cardinality(fetch.inFlight) <= 1
  /\ fetch.sequences["puppeteer"] <= 1
  /\ fetch.sequences["api"] <= 1
  /\ (fetch.method = "api" /\ fetch.pc = "done") =>
       /\ fetch.calls["puppeteer"] = 0
       /\ fetch.sequences["puppeteer"] = 0
  /\ fetch.calls["api"] < DefaultMaxRetries => fetch.calls["puppeteer"] = 0

\* the API failed three times, the browser adapter failed once and then
\* returned rows
C12_Witness ==
  /\ fetch.pc = "done"
  /\ fetch.method = "puppeteer"
  /\ fetch.failed["api"] = DefaultMaxRetries
  /\ fetch.calls["puppeteer"] = 2
  /\ Len(fetch.data) > 0

(* C13: every invocation of scrapeViaPuppeteer that launched a browser has   *)
(* closed it when it returns or throws, after success, failure and timeout   *)
(* alike: no browser is open between retry attempts or after the run, and    *)
(* at most one is open at any time.                                          *)
C13_BrowserClosedOnExit ==
  /\ fetch.pc \notin {"page", "finally"} =>
       /\ fetch.open = 0
       /\ fetch.browser # "open"
  /\ fetch.open <= 1
  /\ fetch.open = 1 <=> fetch.browser = "open"

\* a browser was launched, the page timed out, and the retry loop now waits
\* for the next attempt with the browser closed
C13_Witness ==
  /\ fetch.pc = "wait"
  /\ fetch.adapter = "puppeteer"
  /\ fetch.exit = "timeout"
  /\ fetch.browser = "closed"
  /\ fetch.launched = 1

\* a call of scrapeViaAPI settles in this step
ApiStep == fetch.pc = "get" /\ fetch'.pc # "get"

(* C31: a call of scrapeViaAPI returns results only when the response was a  *)
(* 2xx with the array payload; on a transport error, another status or a     *)
(* body that is not the array it fails, so that scrapeWithRetry counts a     *)
(* failed attempt and waits for the next one or, after the last attempt,     *)
(* scrapeViaPuppeteer is tried.                                              *)
C31_NonArrayBodyFails ==
  [][ApiStep =>
       IF fetch'.pc = "done" /\ fetch'.isArray
       THEN fetch'.method = "api"
       ELSE /\ fetch'.failed["api"] = fetch.failed["api"] + 1
            /\ IF LastAttempt(fetch.attempt, DefaultMaxRetries)
               THEN fetch'.adapter = "puppeteer" /\ fetch'.pc = "call"
               ELSE fetch'.adapter = "api" /\ fetch'.pc = "wait"]_vars

(* C32: every run of scrapeCommodityPrices ends: it invokes the adapters at  *)
(* most 2 x maxRetries times, at most maxRetries times each, and then        *)
(* returns to its caller, with success or with a failure that it has         *)
(* recorded in the log.                                                      *)
C32_RunEndsWithinSixCalls ==
  /\ [](/\ fetch.calls["api"] <= DefaultMaxRetries
        /\ fetch.calls["puppeteer"] <= DefaultMaxRetries
        /\ fetch.calls["api"] + fetch.calls["puppeteer"] <= 2 * DefaultMaxRetries)
  /\ (job[Cron].pc = "scraping") ~> (job[Cron].pc # "scraping")
  /\ [][ScrapeStep(Cron) =>
          /\ job'[Cron].result.settled = "returned"
          /\ \/ job'[Cron].result.success
             \/ Cardinality(ScraperErrors(systemLog')) > Cardinality(ScraperErrors(systemLog))
             \/ \E e \in ScraperErrors(systemLog') :
                  CopiesIn(e, systemLog') > CopiesIn(e, systemLog)]_vars

-----------------------------------------------------------------------------
(* Properties of the label functions, checked under SpecLabels *)

\* a call of mapCommodity or mapProvince has returned
Mapped ==
  mapping.pc = "returned" /\ mapping.fn \in {"mapCommodity", "mapProvince"}

(* C15: for every key of COMMODITY_MAP / PROVINCE_MAP, in any letter case    *)
(* and with surrounding whitespace, mapCommodity / mapProvince returns the   *)
(* identifier that owns the key; for a label that matches no entry it        *)
(* returns null.                                                             *)
C15_KeysMapElseNull ==
  Mapped =>
    /\ mapping.form = "key" => mapping.result = mapping.owner
    /\ mapping.form = "unknown" => mapping.result = Null

(* C16: every label listed as a keyword of an entry of                       *)
(* COMMODITY_TO_INGREDIENT resolves to the commodity of that entry (its      *)
(* price is returned) whenever that commodity is in the price data,          *)
(* whichever other commodities are present.                                  *)
C16_KeywordResolvesToOwner ==
  (/\ mapping.pc = "returned"
   /\ mapping.fn = "findMatchingCommodity"
   /\ \E item \in mapping.data : item.commodity = mapping.owner)
    => mapping.price = PriceOf(mapping.owner)

(* C17, as stated: a raw label equal to a canonical identifier up to letter  *)
(* case, with underscores and spaces interchanged, maps to that identifier   *)
(* in the ingestion path.                                                    *)
C17_IdentifierFormsMap ==
  (Mapped /\ mapping.form = "id") => mapping.result = mapping.owner

(* C17, amended: a raw label equal to a canonical identifier up to letter    *)
(* case with every underscore written as a space maps to that identifier;    *)
(* a label that keeps an underscore maps to null.                            *)
C17_SpacedIdentifierFormsMap ==
  (Mapped /\ mapping.form = "id") =>
    mapping.result = IF "_" \in Range(mapping.label) THEN Null ELSE mapping.owner

\* 'JAWA_BARAT' is not found
C17_Witness ==
  /\ Mapped
  /\ mapping.label = Chars(ProvinceIds, "JAWA_BARAT")
  /\ mapping.result = Null

-----------------------------------------------------------------------------
(* Properties of the tier gateway, checked under SpecTier *)

\* checkPremium decides the request
CheckPremiumStep == request.pc = "checkPremium" /\ request'.pc # "checkPremium"

(* C3: a request for regional prices or price history reaches its            *)
(* controller only if the caller holds a PREMIUM subscription that has not   *)
(* expired at the time of the decision; any other caller gets 403            *)
(* PREMIUM_REQUIRED and the controller is not reached.                       *)
C3_ServedOnlyWithLiveSubscription ==
  [][CheckPremiumStep =>
       IF \E s \in userSubscription :
            s.userId = request.userId /\ s.status = PREMIUM /\ s.endDate >= today
       THEN request'.pc = "controller"
       ELSE request'.pc = "done" /\ request'.response = PremiumRequired]_vars

(* C4: once the end date of every subscription of an account has passed,     *)
(* every regional or history request of the account that arrives later is    *)
(* denied, whether or not a reconciler has run.                              *)
C4_DeniedAfterExpiry ==
  [][(/\ CheckPremiumStep
      /\ \E s \in userSubscription : s.userId = request.userId
      /\ \A s \in userSubscription :
           s.userId = request.userId => s.endDate < request.arrivedAt) =>
       request'.pc = "done" /\ request'.response = PremiumRequired]_vars

\* a national request is being answered by its controller
NationalStep ==
  request.route = "national" /\ request.pc = "controller" /\ request'.pc = "done"

ExpiryFindStep == expiryJob.pc = "idle" /\ expiryJob'.pc = "update"
ExpiryUpdateStep == expiryJob.pc = "update" /\ expiryJob'.pc = "findOther"
ExpiryFindOtherStep == expiryJob.pc = "findOther" /\ expiryJob'.pc = "downgrade"
ExpiryDowngradeStep == expiryJob.pc = "downgrade" /\ expiryJob'.pc # "downgrade"
ExpiryDone == expiryJob.pc = "downgrade" /\ expiryJob'.pc = "idle"

\* the subscription the loop of the hourly job is at
CurrentSub == expiryJob.expiredSubs[expiryJob.i]

\* the account has a PREMIUM subscription that ends at or after the day
HasLiveSubscription(table, userId, day) ==
  \E s \in table : s.userId = userId /\ s.status = PREMIUM /\ s.endDate >= day

C36_CheckPremiumIsIsPremium ==
  [][CheckPremiumStep =>
       (request'.pc = "controller" <=>
          getUserSubscriptionStatus(userSubscription, user, request.userId, today).isPremium)]_vars

\* the positions of a request inside checkSubscriptionExpiry
Reconciling == {"findExpired", "updateMany", "findActive", "downgrade"}

\* neither the payment handler nor a reconciler is under way, every
\* subscription past its end date has been reconciled, no store call failed
TierHandlersDone ==
  /\ payment.pc = "idle"
  /\ expiryJob.pc = "idle"
  /\ request.pc \notin Reconciling
  /\ \A s \in userSubscription : s.status = PREMIUM => s.endDate >= today
  /\ faults = 0

(* C35: after any interleaving of a successful payment notification and an   *)
(* expiry reconciliation (hourly job or checkSubscriptionExpiry) for one     *)
(* account, once both have finished the account is PREMIUM if and only if it *)
(* has a PREMIUM subscription whose end date has not passed.                 *)
C35_StatusMatchesSubscriptions ==
  TierHandlersDone =>
    \A u \in Users :
      user[u].status = PREMIUM <=> HasLiveSubscription(userSubscription, u, today)

-----------------------------------------------------------------------------
(* Properties of the API client, checked under SpecClient and SpecClientFair *)

\* the requests whose call of refreshAccessToken has not settled: each has one
\* POST /auth/refresh in flight
RefreshesInFlight == {r \in RequestIds : client.requests[r].pc = "refresh"}

\* the requests waiting in refreshSubscribers
Subscribed == {r \in RequestIds : client.requests[r].pc = "subscribed"}

(* C33: every request that got 401 TOKEN_EXPIRED while a refresh was in      *)
(* flight, and subscribed to it, eventually resolves or rejects once that    *)
(* refresh has finished, whether the refresh gave a token or not.            *)
C33_SubscribersSettle ==
  \A r \in RequestIds :
    (client.requests[r].pc = "subscribed") ~>
      (client.requests[r].pc \in {"resolved", "rejected"})

(* C34: at most one POST /auth/refresh is in flight at any time, however     *)
(* many requests get 401 TOKEN_EXPIRED meanwhile: the flag isRefreshing is   *)
(* set exactly while one is, and every other such request subscribes.        *)
C34_OneRefreshInFlight ==
  /\ Cardinality(RefreshesInFlight) <= 1
  /\ client.isRefreshing <=> RefreshesInFlight # {}

\* one refresh is in flight and two other requests that got 401 TOKEN_EXPIRED
\* meanwhile wait for it
C34_Witness ==
  /\ Cardinality(RefreshesInFlight) = 1
  /\ Cardinality(Subscribed) = 2
  /\ Len(client.refreshSubscribers) = 2

-----------------------------------------------------------------------------
(* Properties of the payment notifications, checked under SpecPayment *)

(* C39: once the transaction of an order has status SUCCESS, no later         *)
(* notification for that order, whatever it reports and in whatever order    *)
(* the notifications arrive, changes the status to PENDING, CANCELLED or     *)
(* EXPIRED.                                                                  *)
C39_SuccessIsFinal ==
  [][\A o \in OrderIds :
       transaction[o].status = SUCCESS =>
         transaction'[o].status \notin {PENDING, CANCELLED, EXPIRED}]_vars

====
